---------------------------- MODULE Spec2Model ----------------------------
(***************************************************************************)
(* A model of rishabh-ranjan/bignum: src/src/bignum.c (the numeric core)   *)
(* and the command dispatcher that follows the declarations in             *)
(* src/src/bignum.h.                                                       *)
(*                                                                         *)
(* Scaling.  TLC's integers are 32 bits wide, so the model runs the code   *)
(* with the radix of its DEBUG build (RADIX 10, RNUM 1; bignum.c:18,25)    *)
(* and with PRECISION 2 instead of 5 (bignum.c:379); the algorithms are    *)
(* generic in all three.  The code that is conditional on DEBUG (the '_'   *)
(* separators of bignum_to_string) is modelled in its release form.  The   *)
(* decimal codec takes the number of decimal digits per group as a         *)
(* parameter (rnum), so that the packing and the padding of groups can be  *)
(* checked with groups of more than one decimal digit.                     *)
(*                                                                         *)
(* A bignum is a record [sign, point_offset, num_digits, digits]; digits   *)
(* is a sequence, so C's digits[i] is digits[i + 1] here.                   *)
(***************************************************************************)
EXTENDS Integers, Sequences, FiniteSets, TLC

(* ------------------------------------------------------------------ *)
(* Program constants                                                    *)
(* ------------------------------------------------------------------ *)

\* #define RADIX 10 (the DEBUG build; 1000000000 otherwise)
RADIX == 10

\* #define RNUM 1 (the DEBUG build; 9 otherwise)
RNUM == 1

\* #define PRECISION 5, scaled to 2
PRECISION == 2

\* digit_t is `unsigned': arithmetic on it wraps modulo 2^32, scaled to 2^16
UINT_MOD == 65536

TEN == 10

MINUS_CHAR == "-"
DOT_CHAR == "."
ZERO_CHAR == "0"
ZERO_STRING == <<"0">>

POW10 == <<1, 10, 100, 1000, 10000, 100000, 1000000, 10000000, 100000000, 1000000000>>

(* ------------------------------------------------------------------ *)
(* Characters.  A C string is a sequence of one-character strings.      *)
(* ------------------------------------------------------------------ *)

DecimalChars == <<"0", "1", "2", "3", "4", "5", "6", "7", "8", "9">>

\* the ASCII code of a character minus the code of '0' (ch - ZERO_CHAR)
CharMinusZero(ch) ==
    CASE ch = "0" -> 0 [] ch = "1" -> 1 [] ch = "2" -> 2 [] ch = "3" -> 3
      [] ch = "4" -> 4 [] ch = "5" -> 5 [] ch = "6" -> 6 [] ch = "7" -> 7
      [] ch = "8" -> 8 [] ch = "9" -> 9
      [] ch = "-" -> 0 - 3
      [] ch = "." -> 0 - 2
      [] ch = "x" -> 72

Max(x, y) == IF x > y THEN x ELSE y

Min(x, y) == IF x < y THEN x ELSE y

(* ------------------------------------------------------------------ *)
(* Allocation, clone, abs (bignum.c:57-96)                              *)
(* ------------------------------------------------------------------ *)

\* the n digits f[1], ..., f[n] of a buffer, held as a sequence of values
Array(f, n) == SubSeq(f, 1, n)

\* calloc'ed digits, num_digits set, sign and point_offset 0
bignum_alloc(num_digits) ==
    [sign |-> 0, point_offset |-> 0, num_digits |-> num_digits,
     digits |-> Array([i \in 1..num_digits |-> 0], num_digits)]

clone(num) ==
    LET ret == bignum_alloc(num.num_digits)
    IN  [ret EXCEPT !.sign = num.sign,
                    !.point_offset = num.point_offset,
                    !.digits = Array([i \in 1..num.num_digits |-> num.digits[i]],
                                      num.num_digits)]

bignum_abs(num) == [clone(num) EXCEPT !.sign = 0]

(* ------------------------------------------------------------------ *)
(* string_to_bignum (bignum.c:119-163)                                  *)
(* ------------------------------------------------------------------ *)

\* strchr(str, DOT_CHAR) - str, or -1 when strchr returns NULL
DotIndex(str) ==
    IF \E i \in 1..Len(str) : str[i] = DOT_CHAR
    THEN (CHOOSE i \in 1..Len(str) :
              str[i] = DOT_CHAR /\ \A j \in 1..(i - 1) : str[j] # DOT_CHAR) - 1
    ELSE 0 - 1

\* the loop of lines 149-160 from iteration i on; st = [digits, bdc, ddc]
RECURSIVE PackDigits(_, _, _, _, _)
PackDigits(str, neg, rnum, i, st) ==
    IF i >= Len(str) - neg THEN st.digits
    ELSE LET ch == str[Len(str) - i]
         IN  IF ch = DOT_CHAR THEN PackDigits(str, neg, rnum, i + 1, st)
             ELSE LET dd == CharMinusZero(ch)
                      cell == (st.digits[st.bdc + 1] + dd * POW10[st.ddc + 1]) % UINT_MOD
                      digits == [st.digits EXCEPT ![st.bdc + 1] = cell]
                  IN  IF st.ddc = rnum - 1
                      THEN PackDigits(str, neg, rnum, i + 1,
                                      [digits |-> digits, bdc |-> st.bdc + 1, ddc |-> 0])
                      ELSE PackDigits(str, neg, rnum, i + 1,
                                      [digits |-> digits, bdc |-> st.bdc, ddc |-> st.ddc + 1])

\* string_to_bignum with RNUM = rnum.  The code returns NULL only when malloc
\* fails, which the model leaves out: the result is always a bignum.
string_to_bignum_rnum(str, rnum) ==
    LET len == Len(str)
        neg == IF len > 0 /\ str[1] = MINUS_CHAR THEN 1 ELSE 0
        dot == DotIndex(str)
        flt == dot >= 0
        ofs0 == IF flt THEN len - dot - 1 ELSE 0
        rhz0 == rnum - (ofs0 % rnum)
        rhz == IF rhz0 = rnum THEN 0 ELSE rhz0
        ofs == (ofs0 \div rnum) + (IF ofs0 % rnum # 0 THEN 1 ELSE 0)
        ndw0 == IF flt THEN dot - neg ELSE len - neg
        ndw == (ndw0 \div rnum) + (IF ndw0 % rnum # 0 THEN 1 ELSE 0)
        nd == ndw + ofs
        ret == bignum_alloc(nd)
    IN  [ret EXCEPT !.sign = neg,
                    !.point_offset = ofs,
                    !.digits = PackDigits(str, neg, rnum, 0,
                                          [digits |-> ret.digits, bdc |-> 0, ddc |-> rhz])]

string_to_bignum(str) == string_to_bignum_rnum(str, RNUM)

(* ------------------------------------------------------------------ *)
(* bignum_to_string (bignum.c:171-240)                                  *)
(* ------------------------------------------------------------------ *)

\* line 174: the first non-zero digit index, num_digits when there is none
FirstNonZero(num) ==
    IF \E i \in 0..(num.num_digits - 1) : num.digits[i + 1] # 0
    THEN CHOOSE i \in 0..(num.num_digits - 1) :
             num.digits[i + 1] # 0 /\ \A j \in 0..(i - 1) : num.digits[j + 1] = 0
    ELSE num.num_digits

\* line 177: the last non-zero digit index, -1 when there is none
LastNonZero(num) ==
    IF \E i \in 0..(num.num_digits - 1) : num.digits[i + 1] # 0
    THEN CHOOSE i \in 0..(num.num_digits - 1) :
             num.digits[i + 1] # 0
             /\ \A j \in (i + 1)..(num.num_digits - 1) : num.digits[j + 1] = 0
    ELSE 0 - 1

\* lines 209-215 and 223: the decimal digits of cpy, most significant first
\* (none for 0); their number is ctr
RECURSIVE DecimalDigits(_)
DecimalDigits(cpy) ==
    IF cpy = 0 THEN << >>
    ELSE Append(DecimalDigits(cpy \div TEN), DecimalChars[(cpy % TEN) + 1])

Zeroes(n) == [j \in 1..n |-> ZERO_CHAR]

\* lines 192-198: fnzdi and lnzdi after the clamping to the point
ClampedFirst(num) ==
    LET ofsdi == num.point_offset - 1
        fnzdi == FirstNonZero(num)
    IN  IF fnzdi > ofsdi + 1 THEN ofsdi + 1 ELSE fnzdi

ClampedLast(num) ==
    LET ofsdi == num.point_offset - 1
        lnzdi == LastNonZero(num)
    IN  IF lnzdi <= ofsdi THEN ofsdi ELSE lnzdi

\* GroupChars with the padding condition of line 217 cut to `di != lnzdi'
GroupChars_nopad(num, rnum, di) ==
    LET ofsdi == num.point_offset - 1
        lnzdi == ClampedLast(num)
        dec == DecimalDigits(num.digits[di + 1])
        ctr == Len(dec)
    IN  (IF di = ofsdi THEN <<DOT_CHAR>> ELSE << >>)
        \o (IF di # lnzdi THEN Zeroes(rnum - ctr) ELSE << >>)
        \o dec

\* one iteration of the loop of lines 200-228: the characters written for digit di
GroupChars(num, rnum, di) ==
    LET ofsdi == num.point_offset - 1
        lnzdi == ClampedLast(num)
        dec == DecimalDigits(num.digits[di + 1])
        ctr == Len(dec)
    IN  (IF di = ofsdi THEN <<DOT_CHAR>> ELSE << >>)
        \o (IF di # lnzdi \/ di <= ofsdi THEN Zeroes(rnum - ctr) ELSE << >>)
        \o dec

\* the loop of lines 200-228, from digit di down to digit fnzdi
RECURSIVE EmitGroups(_, _, _, _)
EmitGroups(num, rnum, di, fnzdi) ==
    IF di < fnzdi THEN << >>
    ELSE GroupChars(num, rnum, di) \o EmitGroups(num, rnum, di - 1, fnzdi)

\* line 234: while (*--iter == ZERO_CHAR);
RECURSIVE TrimZeroes(_)
TrimZeroes(chars) ==
    IF Len(chars) > 0 /\ chars[Len(chars)] = ZERO_CHAR
    THEN TrimZeroes(SubSeq(chars, 1, Len(chars) - 1))
    ELSE chars

\* what lines 189-228 write before the trimming
EmittedChars(num, rnum) ==
    LET ofsdi == num.point_offset - 1
    IN  (IF num.sign # 0 THEN <<MINUS_CHAR>> ELSE << >>)
        \o (IF LastNonZero(num) <= ofsdi THEN <<ZERO_CHAR>> ELSE << >>)
        \o EmitGroups(num, rnum, ClampedLast(num), ClampedFirst(num))

\* bignum_to_string reads digits[di] for di from the clamped lnzdi down to the
\* clamped fnzdi without a bounds check, and writes the characters and the
\* final '\0' into malloc(len + 2): outside either the behaviour is undefined
to_string_undefined(num, rnum) ==
    /\ FirstNonZero(num) # num.num_digits
    /\ \/ ClampedLast(num) >= num.num_digits
       \/ ClampedFirst(num) < 0
       \/ Len(EmittedChars(num, rnum)) + 1
              > num.num_digits * rnum + (IF num.point_offset = 0 THEN 1 ELSE 0)
                + num.sign + 2

\* bignum_to_string with the test of line 175 made after the sign is written
\* (line 189): a zero with the sign flag set keeps its minus
bignum_to_string_rnum_signedzero(num, rnum) ==
    IF FirstNonZero(num) = num.num_digits
    THEN (IF num.sign # 0 THEN <<MINUS_CHAR>> ELSE << >>) \o ZERO_STRING
    ELSE LET chars == EmittedChars(num, rnum)
         IN  IF ClampedFirst(num) <= num.point_offset - 1
             THEN TrimZeroes(chars)
             ELSE chars

bignum_to_string_rnum(num, rnum) ==
    IF FirstNonZero(num) = num.num_digits THEN ZERO_STRING
    ELSE LET chars == EmittedChars(num, rnum)
         IN  IF ClampedFirst(num) <= num.point_offset - 1
             THEN TrimZeroes(chars)
             ELSE chars

bignum_to_string(num) == bignum_to_string_rnum(num, RNUM)

(* ------------------------------------------------------------------ *)
(* Magnitude arithmetic (bignum.c:247-332)                              *)
(* ------------------------------------------------------------------ *)

\* get_digit taking position 0 for the group at index point_offset - 1
get_digit_rightofpoint(num, ind) ==
    LET di == ind + num.point_offset - 1
    IN  IF di < 0 \/ di >= num.num_digits THEN 0 ELSE num.digits[di + 1]

\* the digit at position ind, position 0 being just left of the point; 0
\* outside the digits stored
get_digit(num, ind) ==
    LET di == ind + num.point_offset
    IN  IF di < 0 \/ di >= num.num_digits THEN 0 ELSE num.digits[di + 1]

\* add_step losing the carry into the next group
add_step_nocarry(rofs, st, tmp) ==
    IF tmp >= RADIX
    THEN [i |-> st.i + 1, carry |-> 0,
          digits |-> [st.digits EXCEPT ![st.i + rofs + 1] = tmp - RADIX]]
    ELSE [i |-> st.i + 1, carry |-> 0,
          digits |-> [st.digits EXCEPT ![st.i + rofs + 1] = tmp]]

\* one pass of the body of the loop of lines 266-275; st = [i, carry, digits]
add_step(rofs, st, tmp) ==
    IF tmp >= RADIX
    THEN [i |-> st.i + 1, carry |-> 1,
          digits |-> [st.digits EXCEPT ![st.i + rofs + 1] = tmp - RADIX]]
    ELSE [i |-> st.i + 1, carry |-> 0,
          digits |-> [st.digits EXCEPT ![st.i + rofs + 1] = tmp]]

\* the loop of lines 266-275 from the state st on
RECURSIVE add_loop(_, _, _, _, _)
add_loop(x, y, rofs, rwnd, st) ==
    IF st.i >= rwnd THEN st.digits
    ELSE add_loop(x, y, rofs, rwnd,
                  add_step(rofs, st, get_digit(x, st.i) + get_digit(y, st.i) + st.carry))

\* add_unsigned laying the result out as its first operand: the groups of y
\* right of those of x are not read
add_unsigned_leftlayout(x, y) ==
    LET rofs == x.point_offset
        rwnd == 1 + Max(x.num_digits - x.point_offset, y.num_digits - y.point_offset)
        ret == bignum_alloc(rwnd + rofs)
    IN  [ret EXCEPT !.point_offset = rofs,
                    !.digits = add_loop(x, y, rofs, rwnd,
                                        [i |-> 0 - rofs, carry |-> 0, digits |-> ret.digits])]

add_unsigned(x, y) ==
    LET rofs == Max(x.point_offset, y.point_offset)
        rwnd == 1 + Max(x.num_digits - x.point_offset, y.num_digits - y.point_offset)
        ret == bignum_alloc(rwnd + rofs)
    IN  [ret EXCEPT !.point_offset = rofs,
                    !.digits = add_loop(x, y, rofs, rwnd,
                                        [i |-> 0 - rofs, carry |-> 0, digits |-> ret.digits])]

\* lines 293-301: the digit of the minuend after the borrow is taken from it
sub_borrowed(da0, borrow) ==
    IF borrow # 0 THEN (IF da0 # 0 THEN da0 - 1 ELSE RADIX - 1) ELSE da0

\* sub_borrow forgetting the borrow that a zero digit cannot pay
sub_borrow_dropped(da0, borrow) ==
    IF borrow # 0 THEN 0 ELSE borrow

\* lines 293-301: the borrow left after it is taken from the digit da0
sub_borrow(da0, borrow) ==
    IF borrow # 0 THEN (IF da0 # 0 THEN 0 ELSE 1) ELSE borrow

\* lines 303-310: the digit stored and the borrow kept; st = [i, borrow, digits]
sub_step(rofs, st, da, borrow1, db) ==
    IF da >= db
    THEN [i |-> st.i + 1, borrow |-> borrow1,
          digits |-> [st.digits EXCEPT ![st.i + rofs + 1] = da - db]]
    ELSE [i |-> st.i + 1, borrow |-> 1,
          digits |-> [st.digits EXCEPT ![st.i + rofs + 1] = da + RADIX - db]]

\* the loop of lines 291-311 from the state st on
RECURSIVE sub_loop(_, _, _, _, _)
sub_loop(x, y, rofs, rwnd, st) ==
    IF st.i >= rwnd THEN st.digits
    ELSE sub_loop(x, y, rofs, rwnd,
                  sub_step(rofs, st, sub_borrowed(get_digit(x, st.i), st.borrow),
                           sub_borrow(get_digit(x, st.i), st.borrow), get_digit(y, st.i)))

\* x - y ignoring the signs; meant for |x| >= |y|
sub_unsigned(x, y) ==
    LET rofs == Max(x.point_offset, y.point_offset)
        rwnd == x.num_digits - x.point_offset
        ret == bignum_alloc(rwnd + rofs)
    IN  [ret EXCEPT !.point_offset = rofs,
                    !.digits = sub_loop(x, y, rofs, rwnd,
                                        [i |-> 0 - rofs, borrow |-> 0, digits |-> ret.digits])]

\* the loop of lines 325-330 from position i down
RECURSIVE comp_loop(_, _, _, _)
comp_loop(x, y, rofs, i) ==
    IF i < 0 - rofs THEN 0
    ELSE LET da == get_digit(x, i)
             db == get_digit(y, i)
         IN  IF da < db THEN 0 - 1
             ELSE IF da > db THEN 1
             ELSE comp_loop(x, y, rofs, i - 1)

\* mag_comp starting at the most significant group of x, whatever groups y
\* has left of it
mag_comp_bysize(x, y) ==
    LET rofs == Max(x.point_offset, y.point_offset)
        rwnd == x.num_digits - x.point_offset
    IN  comp_loop(x, y, rofs, rwnd - 1)

mag_comp(x, y) ==
    LET rofs == Max(x.point_offset, y.point_offset)
        rwnd == Max(x.num_digits - x.point_offset, y.num_digits - y.point_offset)
    IN  comp_loop(x, y, rofs, rwnd - 1)

(* ------------------------------------------------------------------ *)
(* Signed add and subtract (bignum.c:337-354)                           *)
(* ------------------------------------------------------------------ *)

\* C's ^ on the sign flags, which are 0 or 1
Xor(p, q) == (p + q) % 2

\* addsub_signed without the comparison of magnitudes: the first operand is
\* always the minuend
addsub_signed_nocomp(x, y, sub) ==
    LET sx == x.sign
        sy == Xor(y.sign, sub)
    IN  IF sx = sy
        THEN [add_unsigned(x, y) EXCEPT !.sign = sx]
        ELSE [sub_unsigned(x, y) EXCEPT !.sign = sx]

\* addsub_signed giving every difference the sign of the first operand
addsub_signed_firstsign(x, y, sub) ==
    LET sx == x.sign
        sy == Xor(y.sign, sub)
    IN  IF sx = sy
        THEN [add_unsigned(x, y) EXCEPT !.sign = sx]
        ELSE IF mag_comp(x, y) > 0
             THEN [sub_unsigned(x, y) EXCEPT !.sign = sx]
             ELSE [sub_unsigned(y, x) EXCEPT !.sign = sx]

addsub_signed(x, y, sub) ==
    LET sx == x.sign
        sy == Xor(y.sign, sub)
    IN  IF sx = sy
        THEN [add_unsigned(x, y) EXCEPT !.sign = sx]
        ELSE IF mag_comp(x, y) > 0
             THEN [sub_unsigned(x, y) EXCEPT !.sign = sx]
             ELSE [sub_unsigned(y, x) EXCEPT !.sign = sy]

(* ------------------------------------------------------------------ *)
(* Multiplication (bignum.c:361-376)                                    *)
(* ------------------------------------------------------------------ *)

\* lines 369-371: the digit and the carry taken from the accumulator tmp;
\* st = [ai, bi, digits, carry, maxtmp], maxtmp the largest value tmp has held
mul_step(st, tmp) ==
    [ai |-> st.ai, bi |-> st.bi + 1,
     digits |-> [st.digits EXCEPT ![st.ai + st.bi + 1] = tmp % RADIX],
     carry |-> tmp \div RADIX,
     maxtmp |-> Max(st.maxtmp, tmp)]

\* the inner loop of lines 367-372 from the state st on
RECURSIVE mul_inner(_, _, _)
mul_inner(x, y, st) ==
    IF st.bi >= y.num_digits THEN st
    ELSE mul_inner(x, y, mul_step(st, x.digits[st.ai + 1] * y.digits[st.bi + 1]
                                      + st.digits[st.ai + st.bi + 1] + st.carry))

\* line 373: the carry left by the inner loop goes above its last digit
mul_carry(y, inner) ==
    [inner EXCEPT !.ai = inner.ai + 1,
                  !.digits[inner.ai + y.num_digits + 1] = inner.carry]

\* mul_outer without line 373: the carry left by the inner loop is dropped
RECURSIVE mul_outer_dropcarry(_, _, _)
mul_outer_dropcarry(x, y, st) ==
    IF st.ai >= x.num_digits THEN st
    ELSE mul_outer_dropcarry(x, y,
             [mul_inner(x, y, [st EXCEPT !.bi = 0, !.carry = 0]) EXCEPT !.ai = st.ai + 1])

\* the outer loop of lines 365-374 from the state st on
RECURSIVE mul_outer(_, _, _)
mul_outer(x, y, st) ==
    IF st.ai >= x.num_digits THEN st
    ELSE mul_outer(x, y, mul_carry(y, mul_inner(x, y, [st EXCEPT !.bi = 0, !.carry = 0])))

mul_run(x, y) ==
    mul_outer(x, y, [ai |-> 0, bi |-> 0,
                     digits |-> bignum_alloc(x.num_digits + y.num_digits).digits,
                     carry |-> 0, maxtmp |-> 0])

long_mul(x, y) ==
    LET ret == bignum_alloc(x.num_digits + y.num_digits)
    IN  [ret EXCEPT !.sign = Xor(x.sign, y.sign),
                    !.point_offset = x.point_offset + y.point_offset,
                    !.digits = mul_run(x, y).digits]

(* ------------------------------------------------------------------ *)
(* Outcomes of a call                                                   *)
(* ------------------------------------------------------------------ *)

\* "val": the call returned the bignum val.  "null": it returned NULL.
\* "exit": bignum_alloc was asked for a negative number of digits, calloc
\* failed and the process ended in exit(EXIT_FAILURE).  "undefined": the call
\* ran into undefined behaviour; val is then what it returns when the stray
\* accesses hit nothing.
NoNum == bignum_alloc(0)

Val(num) == [kind |-> "val", val |-> num]

Null == [kind |-> "null", val |-> NoNum]

Exit == [kind |-> "exit", val |-> NoNum]

UndefinedWith(num) == [kind |-> "undefined", val |-> num]

Crash == [kind |-> "crash", val |-> NoNum]

NoRes == [kind |-> "none", val |-> NoNum]

\* what the caller may see of a call: undefined behaviour may crash the
\* process or go unnoticed
Outcomes(o) == IF o.kind = "undefined" THEN {Crash, Val(o.val)} ELSE {o}

(* ------------------------------------------------------------------ *)
(* Division (bignum.c:385-451)                                          *)
(* ------------------------------------------------------------------ *)

\* the number lzb of leading zero digits of y (line 387)
LeadingZeroes(y) ==
    IF \E i \in 0..(y.num_digits - 1) : y.digits[i + 1] # 0
    THEN y.num_digits - 1 - LastNonZero(y)
    ELSE y.num_digits

\* the bignum rem as the code sees it: num_digits digits of the buffer from
\* the place rem->digits points to (off)
Window(buf, off, n) ==
    [sign |-> 0, point_offset |-> 0, num_digits |-> n,
     digits |-> Array([i \in 1..n |-> buf[off + i]], n)]

\* dig with digits[0] = d
Digit(d) == [bignum_alloc(1) EXCEPT !.digits = <<d>>]

\* bcpy: the bnd low digits of y, point_offset 0 (its sign is never set and
\* never matters)
DivisorCopy(y, bnd) ==
    [sign |-> 0, point_offset |-> 0, num_digits |-> bnd,
     digits |-> Array([i \in 1..bnd |-> y.digits[i]], bnd)]

\* lines 431-436: the candidate fits and leaves isub; found tells that the
\* break of line 433 was taken
div_fits(bcpy, st, isub) ==
    IF mag_comp(isub, bcpy) < 0
    THEN [st EXCEPT !.isub = isub, !.set = TRUE, !.found = TRUE]
    ELSE [st EXCEPT !.isub = isub, !.set = TRUE,
                    !.lo = (st.mid + 1) % UINT_MOD]

\* lines 429-439: tmp = mid * bcpy against the remainder
div_compare(rem, bcpy, st, tmp) ==
    IF mag_comp(tmp, rem) <= 0
    THEN div_fits(bcpy, st, sub_unsigned(rem, tmp))
    ELSE [st EXCEPT !.hi = (st.mid - 1) % UINT_MOD]

\* lines 427-428 with mid = st.mid
div_probe(rem, bcpy, st) ==
    div_compare(rem, bcpy, st, long_mul(Digit(st.mid), bcpy))

\* lines 426-439: one pass of the body of the search
div_pass(rem, bcpy, st) ==
    div_probe(rem, bcpy,
              [st EXCEPT !.mid = ((st.lo + st.hi) % UINT_MOD) \div 2,
                         !.iters = st.iters + 1])

\* the binary search of lines 425-440; st = [lo, hi, mid, isub, set, found,
\* iters]: set tells whether isub has been assigned, found whether the loop
\* ended in the break
RECURSIVE div_search(_, _, _)
div_search(rem, bcpy, st) ==
    IF st.found \/ ~(st.hi >= st.lo) THEN st
    ELSE div_search(rem, bcpy, div_pass(rem, bcpy, st))

\* div_bounds with hi one short of the largest digit
div_bounds_short(st) ==
    [lo |-> 0, hi |-> RADIX - 2, mid |-> st.mid,
     isub |-> NoNum, set |-> FALSE, found |-> FALSE, iters |-> 0]

\* lines 422-424: the state a search starts in; mid keeps the value the
\* search before left in it
div_bounds(st) ==
    [lo |-> 0, hi |-> RADIX - 1, mid |-> st.mid,
     isub |-> NoNum, set |-> FALSE, found |-> FALSE, iters |-> 0]

\* lines 441-445 with the search's final state: the digit stored and rem
\* overwritten with isub (an isub never assigned leaves rem as it is)
div_store(bnd, naz, st, search) ==
    LET off  == st.off - 1
        isub == IF search.set THEN search.isub ELSE Window(st.buf, off, bnd + 1)
    IN  [ai |-> st.ai - 1,
         buf |-> Array([i \in 1..Len(st.buf) |->
                            IF i > off /\ i <= off + bnd + 1
                            THEN isub.digits[i - off] ELSE st.buf[i]],
                       Len(st.buf)),
         off |-> off,
         digits |-> [st.digits EXCEPT ![st.ai + naz + 1] = search.mid],
         mid |-> search.mid,
         unset |-> st.unset \/ ~search.set,
         found |-> st.found /\ search.found,
         iters |-> Max(st.iters, search.iters)]

\* lines 418-445: one pass of the body of the loop
div_iteration(bcpy, bnd, naz, st) ==
    div_store(bnd, naz, st,
              div_search(Window(st.buf, st.off - 1, bnd + 1), bcpy, div_bounds(st)))

\* the loop of lines 417-446 from the state st on; st = [ai, buf, off,
\* digits, mid, unset, found, iters]: buf the digits of rem as allocated, off
\* the place rem->digits points to, digits those of ret; mid lives across
\* the iterations as in the code's scope of mid (isub is declared anew in
\* each iteration and not initialised); unset tells whether an isub never
\* assigned was read, found whether every search ended in the break, iters
\* the most iterations a search took
RECURSIVE div_loop(_, _, _, _)
div_loop(bcpy, bnd, naz, st) ==
    IF st.ai < 0 - naz THEN st
    ELSE div_loop(bcpy, bnd, naz, div_iteration(bcpy, bnd, naz, st))

\* lines 392-417 for a divisor that is not zero and sizes that calloc
\* grants: the state the loop starts in
div_enter(x, y) ==
    LET bnd == y.num_digits - LeadingZeroes(y)
        naz == PRECISION + y.point_offset - x.point_offset
        ret == bignum_alloc(x.num_digits + naz - bnd + 1)
        rem == bignum_alloc(x.num_digits + naz + 1)
        \* lines 403-405; the writes before the start of the buffer are
        \* StrayStores
        buf == Array([i \in 1..rem.num_digits |->
                          IF i - 1 - naz >= 0 /\ i - 1 - naz < x.num_digits
                          THEN x.digits[i - naz] ELSE 0], rem.num_digits)
    IN  [ai |-> x.num_digits - bnd,
         buf |-> buf, off |-> x.num_digits + naz - bnd + 1,
         digits |-> ret.digits, mid |-> 0, unset |-> FALSE,
         found |-> TRUE, iters |-> 0]

\* lines 392-446
div_run(x, y) ==
    div_loop(DivisorCopy(y, y.num_digits - LeadingZeroes(y)),
             y.num_digits - LeadingZeroes(y),
             PRECISION + y.point_offset - x.point_offset,
             div_enter(x, y))

\* lines 398-399 and 450 with the final state of the loop
div_result(x, y, run) ==
    LET naz == PRECISION + y.point_offset - x.point_offset
        bnd == y.num_digits - LeadingZeroes(y)
        ret == [sign |-> Xor(x.sign, y.sign), point_offset |-> PRECISION,
                num_digits |-> x.num_digits + naz - bnd + 1, digits |-> run.digits]
    IN  \* line 404 writes rem->digits[naz + i] for i >= 0: before the buffer
        \* when naz < 0; line 444 reads an isub that was never assigned when a
        \* search ends without a candidate that fits
        IF naz < 0 \/ run.unset THEN UndefinedWith(ret) ELSE Val(ret)

long_div(x, y) ==
    LET lzb  == LeadingZeroes(y)
        bnd  == y.num_digits - lzb
        naz  == PRECISION + y.point_offset - x.point_offset
    IN  IF lzb = y.num_digits THEN Null
        \* line 397: bignum_alloc of a negative size
        ELSE IF x.num_digits + naz - bnd + 1 < 0 THEN Exit
        ELSE div_result(x, y, div_run(x, y))

(* ------------------------------------------------------------------ *)
(* Stores before the start of the buffer of rem                         *)
(* (bignum.c:403-405, 491-493)                                          *)
(* ------------------------------------------------------------------ *)

\* rem->digits[naz + i] = x->digits[i] for the i with naz + i < 0: the values
\* stored before the start of the buffer, in the order of their addresses
StrayStores(x, naz) ==
    IF naz < 0 THEN SubSeq(x.digits, 1, Min(0 - naz, x.num_digits)) ELSE << >>

\* num after the stores of stray, which go to successive addresses, have
\* landed on its digits from digits[k] on (for k < 0 the first -k of them
\* land before its digits)
Landed(num, stray, k) ==
    [num EXCEPT !.digits =
         Array([j \in 1..num.num_digits |->
                    IF j - k >= 1 /\ j - k <= Len(stray)
                    THEN stray[j - k] ELSE num.digits[j]], num.num_digits)]

\* what a bignum that lives during the call may hold after it: the memory
\* before the buffer of rem belongs to the allocator or to another live
\* buffer, and the stray stores change it wherever they land on it
Hit(num, stray) ==
    {num} \cup {Landed(num, stray, k) :
                    k \in (1 - Len(stray))..(num.num_digits - 1)}

\* the operand num after a call with outcome r and stray stores stray; after
\* a call that has not returned there is nothing to look at
AfterCall(num, r, stray) ==
    IF r.kind = "val" THEN Hit(num, stray) ELSE {num}

\* lines 403-405 of long_div, reached when the divisor is not zero
div_stray(x, y) ==
    IF LeadingZeroes(y) = y.num_digits THEN << >>
    ELSE StrayStores(x, PRECISION + y.point_offset - x.point_offset)

\* lines 491-493 of sqrt_unsigned
sqrt_stray(x) == StrayStores(x, PRECISION * 2 - x.point_offset)

\* long_pow takes the root of a clone of x when the first group right of
\* the point of y is not zero (lines 613-616, 686)
pow_stray(x, y) ==
    IF y.point_offset # 0 /\ y.digits[y.point_offset] # 0
    THEN sqrt_stray(clone(x)) ELSE << >>

(* ------------------------------------------------------------------ *)
(* State                                                                *)
(* ------------------------------------------------------------------ *)

VARIABLES
    pc,     \* "start", or the name of the operation that ran last
    rn,     \* decimal digits per group used by the codec
    sa, sb, \* the operand strings (sequences of characters)
    a, b,   \* the operand bignums
    res,    \* the outcome of the operation: [kind, val]
    out,    \* the line produced: [kind, str]
    c,      \* the third operand of a relation of three
    todo,   \* the commands of the input not read yet
    lines,  \* the lines printed so far
    frame   \* the locals of a call of long_div or sqrt_unsigned on its way

vars == <<pc, rn, sa, sb, a, b, res, out, c, todo, lines, frame>>

\* what the specifications of one operation leave alone
aux == <<c, todo, lines, frame>>

\* no call on its way
NoFrame == [live |-> 0]

\* no third operand, no input, nothing printed and no call on its way
NoAux ==
    /\ c = NoNum
    /\ todo = << >>
    /\ lines = << >>
    /\ frame = NoFrame

Line(chars) == [kind |-> "str", str |-> chars]

NoLine == [kind |-> "none", str |-> << >>]

CrashLine == [kind |-> "crash", str |-> << >>]

\* printf("%s\n", bignum_to_string(r)): the line, or any outcome of the
\* undefined behaviour (a crash, or the characters all the same when the
\* stray accesses hit nothing and the digits read are in place)
PrintedLines(num, rnum) ==
    IF to_string_undefined(num, rnum)
    THEN {CrashLine}
         \cup (IF ClampedLast(num) < num.num_digits /\ ClampedFirst(num) >= 0
               THEN {Line(bignum_to_string_rnum(num, rnum))} ELSE {})
    ELSE {Line(bignum_to_string_rnum(num, rnum))}

(* ------------------------------------------------------------------ *)
(* Bounds of the codec specification                                    *)
(* ------------------------------------------------------------------ *)

\* decimal digits of the whole part and of the fraction of an input string
MaxWholeChars == 3

MaxFracChars == 3

\* the codec is run with 1..MaxRnum decimal digits per group
MaxRnum == 3

DigitChars == {"0", "1", "9"}

CharSeqs(n) == UNION {[1..k -> DigitChars] : k \in 1..n}

\* -? digit+ ( . digit+ )?
ValidStrings(maxw, maxf) ==
    LET unsigned == CharSeqs(maxw)
                    \cup {w \o <<DOT_CHAR>> \o f : w \in CharSeqs(maxw), f \in CharSeqs(maxf)}
    IN  unsigned \cup {<<MINUS_CHAR>> \o u : u \in unsigned}

(* ------------------------------------------------------------------ *)
(* The codec: parse a string, format the value                          *)
(* ------------------------------------------------------------------ *)

InitCodec ==
    /\ pc = "start"
    /\ NoAux
    /\ rn \in 1..MaxRnum
    /\ sa \in ValidStrings(MaxWholeChars, MaxFracChars)
    /\ sb = << >>
    /\ a = NoNum
    /\ b = NoNum
    /\ res = NoRes
    /\ out = NoLine

Parse ==
    /\ pc = "start"
    /\ pc' = "parsed"
    /\ a' = string_to_bignum_rnum(sa, rn)
    /\ res' = Val(a')
    /\ UNCHANGED <<aux, rn, sa, sb, b, out>>

Format ==
    /\ pc = "parsed"
    /\ pc' = "formatted"
    /\ out' \in PrintedLines(a, rn)
    /\ UNCHANGED <<aux, rn, sa, sb, a, b, res>>

NextCodec == Parse \/ Format

SpecCodec == InitCodec /\ [][NextCodec]_vars


(* ------------------------------------------------------------------ *)
(* C1                                                                   *)
(* ------------------------------------------------------------------ *)

RECURSIVE StripLeadingZeroes(_)
StripLeadingZeroes(chars) ==
    IF Len(chars) > 0 /\ chars[1] = ZERO_CHAR
    THEN StripLeadingZeroes(Tail(chars))
    ELSE chars

RECURSIVE StripTrailingZeroes(_)
StripTrailingZeroes(chars) ==
    IF Len(chars) > 0 /\ chars[Len(chars)] = ZERO_CHAR
    THEN StripTrailingZeroes(SubSeq(chars, 1, Len(chars) - 1))
    ELSE chars

\* The canonical minimal decimal form of a valid string: the whole part
\* without leading zeroes (a single 0 when nothing is left), the fraction
\* without trailing zeroes, the point only before a non-empty fraction, and
\* the minus sign only on a non-zero value.
Canonical(str) ==
    LET neg == Len(str) > 0 /\ str[1] = MINUS_CHAR
        body == IF neg THEN Tail(str) ELSE str
        dot == DotIndex(body)
        whole == IF dot >= 0 THEN SubSeq(body, 1, dot) ELSE body
        frac == IF dot >= 0 THEN SubSeq(body, dot + 2, Len(body)) ELSE << >>
        w == StripLeadingZeroes(whole)
        f == StripTrailingZeroes(frac)
    IN  (IF neg /\ (w # << >> \/ f # << >>) THEN <<MINUS_CHAR>> ELSE << >>)
        \o (IF w = << >> THEN <<ZERO_CHAR>> ELSE w)
        \o (IF f = << >> THEN << >> ELSE <<DOT_CHAR>> \o f)

\* C1: for every valid decimal string, formatting the parsed value yields the
\* canonical minimal decimal form of the string: no leading zeroes except a
\* single 0 before the point, no trailing zeroes after the point, no point
\* when the fraction is empty.
C1_RoundTripCanonical ==
    pc = "formatted" => out = Line(Canonical(sa))

\* a string with a leading zero, a trailing zero and a zero inside a group of
\* two decimal digits has been parsed and formatted
C1_Witness ==
    /\ pc = "formatted"
    /\ rn = 2
    /\ sa = <<"-", "0", "1", "0", ".", "0", "9", "0">>
    /\ out = Line(<<"-", "1", "0", ".", "0", "9">>)

(* ------------------------------------------------------------------ *)
(* Operands of the arithmetic specifications                            *)
(* ------------------------------------------------------------------ *)

\* digit-groups left and right of the point of an operand
MaxWhole == 1

MaxFrac == 1

DigitVals == {0, 1, RADIX - 1}

\* every bignum with w <= maxw groups left of the point, f <= maxf groups
\* right of it, at least one group, and both signs
OperandsOfShape(w, f) ==
    {[sign |-> sg, point_offset |-> f, num_digits |-> w + f, digits |-> ds] :
         sg \in {0, 1}, ds \in [1..(w + f) -> DigitVals]}

Operands(maxw, maxf) ==
    UNION {OperandsOfShape(sh[1], sh[2]) :
               sh \in {t \in (0..maxw) \X (0..maxf) : t[1] + t[2] >= 1}}

(* ------------------------------------------------------------------ *)
(* The numbers bignums stand for                                        *)
(* ------------------------------------------------------------------ *)

RECURSIVE Pow(_, _)
Pow(x, n) == IF n = 0 THEN 1 ELSE x * Pow(x, n - 1)

\* the digits as a natural number, most significant group last
RECURSIVE Magnitude(_, _)
Magnitude(digits, n) ==
    IF n = 0 THEN 0 ELSE digits[1] + RADIX * Magnitude(Tail(digits), n - 1)

IntOf(num) == Magnitude(num.digits, Len(num.digits))

IsZero(num) == \A i \in 1..Len(num.digits) : num.digits[i] = 0

\* the value of num times RADIX^k, for k >= num.point_offset
Scaled(num, k) ==
    (IF num.sign # 0 THEN 0 - 1 ELSE 1) * IntOf(num) * Pow(RADIX, k - num.point_offset)

MaxOffset3(x, y, z) == Max(x.point_offset, Max(y.point_offset, z.point_offset))

(* ------------------------------------------------------------------ *)
(* Add, subtract, multiply two operands                                 *)
(* ------------------------------------------------------------------ *)

InitArith ==
    /\ pc = "start"
    /\ NoAux
    /\ rn = RNUM
    /\ sa = << >>
    /\ sb = << >>
    /\ a \in Operands(MaxWhole, MaxFrac)
    /\ b \in Operands(MaxWhole, MaxFrac)
    /\ res = NoRes
    /\ out = NoLine

Add ==
    /\ pc = "start"
    /\ pc' = "ADD"
    /\ res' = Val(addsub_signed(a, b, 0))
    /\ UNCHANGED <<aux, rn, sa, sb, a, b, out>>

Sub ==
    /\ pc = "start"
    /\ pc' = "SUB"
    /\ res' = Val(addsub_signed(a, b, 1))
    /\ UNCHANGED <<aux, rn, sa, sb, a, b, out>>

Mul ==
    /\ pc = "start"
    /\ pc' = "MUL"
    /\ res' = Val(long_mul(a, b))
    /\ UNCHANGED <<aux, rn, sa, sb, a, b, out>>

NextArith == Add \/ Sub \/ Mul

SpecArith == InitArith /\ [][NextArith]_vars

(* ------------------------------------------------------------------ *)
(* C2                                                                   *)
(* ------------------------------------------------------------------ *)

\* C2: addsub_signed(a, b, 0) is exactly a + b and addsub_signed(a, b, 1) is
\* exactly a - b, whatever the signs, point offsets and digit counts of the
\* operands, also when |b| > |a| (the result then has the effective sign of
\* b) and when |a| = |b| (the result is zero).
C2_AddSubExact ==
    LET k == MaxOffset3(a, b, res.val)
    IN  /\ pc = "ADD" => /\ res.kind = "val"
                         /\ Scaled(res.val, k) = Scaled(a, k) + Scaled(b, k)
        /\ pc = "SUB" => /\ res.kind = "val"
                         /\ Scaled(res.val, k) = Scaled(a, k) - Scaled(b, k)
                         /\ (IntOf(b) * Pow(RADIX, k - b.point_offset)
                                 > IntOf(a) * Pow(RADIX, k - a.point_offset)
                                 => res.val.sign = Xor(b.sign, 1))

\* 0.9 - 1.1 = -0.2: the operands have two groups, the subtrahend is the
\* larger one and the subtraction borrows
C2_Witness ==
    /\ pc = "SUB"
    /\ a = [sign |-> 0, point_offset |-> 1, num_digits |-> 2, digits |-> <<9, 0>>]
    /\ b = [sign |-> 0, point_offset |-> 1, num_digits |-> 2, digits |-> <<1, 1>>]
    /\ res.val.sign = 1
    /\ res.val.digits = <<2, 0>>

(* ------------------------------------------------------------------ *)
(* C3                                                                   *)
(* ------------------------------------------------------------------ *)

\* C3: long_mul(a, b) is exactly a * b: the result has a.num_digits +
\* b.num_digits digits, the sign a.sign XOR b.sign, the point offset
\* a.point_offset + b.point_offset, and the accumulator never holds more than
\* RADIX^2 - 1, which the double-width type holds, so that nothing is lost.
C3_MulExact ==
    pc = "MUL" =>
        /\ res.kind = "val"
        /\ res.val.num_digits = a.num_digits + b.num_digits
        /\ Len(res.val.digits) = res.val.num_digits
        /\ res.val.sign = Xor(a.sign, b.sign)
        /\ res.val.point_offset = a.point_offset + b.point_offset
        /\ IntOf(res.val) = IntOf(a) * IntOf(b)
        /\ mul_run(a, b).maxtmp <= RADIX * RADIX - 1

\* 9.9 * -9.9 = -98.01: every partial product carries
C3_Witness ==
    /\ pc = "MUL"
    /\ a = [sign |-> 0, point_offset |-> 1, num_digits |-> 2, digits |-> <<9, 9>>]
    /\ b = [sign |-> 1, point_offset |-> 1, num_digits |-> 2, digits |-> <<9, 9>>]
    /\ res.val = [sign |-> 1, point_offset |-> 2, num_digits |-> 4, digits |-> <<1, 0, 8, 9>>]
    /\ mul_run(a, b).maxtmp >= RADIX

(* ------------------------------------------------------------------ *)
(* Division of two operands                                             *)
(* ------------------------------------------------------------------ *)

\* the operands of the division are those of the other operations and, to
\* reach the ends of the buffers, d * RADIX^(-k) as dividend and d * RADIX^k
\* as divisor, for k up to PRECISION + MaxShift
MaxShift == 1

\* d * RADIX^(-k): k groups, all right of the point
Tiny(sg, d, k) ==
    [sign |-> sg, point_offset |-> k, num_digits |-> k,
     digits |-> [i \in 1..k |-> IF i = 1 THEN d ELSE 0]]

\* d * RADIX^k: k + 1 groups, all left of the point
Huge(sg, d, k) ==
    [sign |-> sg, point_offset |-> 0, num_digits |-> k + 1,
     digits |-> [i \in 1..(k + 1) |-> IF i = k + 1 THEN d ELSE 0]]

Dividends ==
    Operands(MaxWhole, MaxFrac)
    \cup {Tiny(sg, d, k) : sg \in {0, 1}, d \in DigitVals \ {0},
                           k \in 1..(PRECISION + MaxShift)}

Divisors ==
    Operands(MaxWhole, MaxFrac)
    \cup {Huge(sg, d, k) : sg \in {0, 1}, d \in DigitVals,
                           k \in 1..(PRECISION + MaxShift)}

InitDiv ==
    /\ pc = "start"
    /\ NoAux
    /\ rn = RNUM
    /\ sa = << >>
    /\ sb = << >>
    /\ a \in Dividends
    /\ b \in Divisors
    /\ res = NoRes
    /\ out = NoLine

Div ==
    /\ pc = "start"
    /\ pc' = "DIV"
    /\ res' \in Outcomes(long_div(a, b))
    /\ a' \in AfterCall(a, res', div_stray(a, b))
    /\ b' \in AfterCall(b, res', div_stray(a, b))
    /\ UNCHANGED <<aux, rn, sa, sb, out>>

NextDiv == Div

SpecDiv == InitDiv /\ [][NextDiv]_vars

(* ------------------------------------------------------------------ *)
(* C4                                                                   *)
(* ------------------------------------------------------------------ *)

\* C4: long_div(a, b) returns the error outcome (NULL, DivisionByZero)
\* exactly when every digit-group of b is zero, whatever b's sign, point
\* offset or number of groups; for every b with a non-zero group it returns
\* a value.
C4_DivByZeroExactly ==
    pc = "DIV" =>
        /\ (res.kind = "null") <=> IsZero(b)
        /\ ~IsZero(b) => res.kind = "val"

(* ------------------------------------------------------------------ *)
(* C5                                                                   *)
(* ------------------------------------------------------------------ *)

\* |q * y - x| < |y| * RADIX^(-PRECISION), all three terms brought to the
\* scale RADIX^k with k = max(PRECISION + y.point_offset, x.point_offset)
WithinPrecision(x, y, q) ==
    LET k    == Max(q.point_offset + y.point_offset, x.point_offset)
        qy   == IntOf(q) * IntOf(y) * Pow(RADIX, k - (q.point_offset + y.point_offset))
        xs   == IntOf(x) * Pow(RADIX, k - x.point_offset)
        diff == IF qy >= xs THEN qy - xs ELSE xs - qy
    IN  diff < IntOf(y) * Pow(RADIX, k - (q.point_offset + y.point_offset))

\* C5: for every a and every non-zero b, q = long_div(a, b) is a value with
\* |q*b - a| < |b| * RADIX^(-PRECISION), sign(q) = a.sign XOR b.sign and
\* q.point_offset = PRECISION.
C5_DivPrecision ==
    (pc = "DIV" /\ ~IsZero(b)) =>
        /\ res.kind = "val"
        /\ res.val.sign = Xor(a.sign, b.sign)
        /\ res.val.point_offset = PRECISION
        /\ WithinPrecision(a, b, res.val)

\* what long_div does keep of C5: whenever it returns a value from buffers of
\* non-negative size that it filled within their ends, that value is the
\* quotient truncated to PRECISION fractional groups
C5_ValuesArePrecise ==
    (pc = "DIV" /\ res.kind = "val" /\ long_div(a, b).kind = "val") =>
        /\ res.val.sign = Xor(a.sign, b.sign)
        /\ res.val.point_offset = PRECISION
        /\ WithinPrecision(a, b, res.val)

(* ------------------------------------------------------------------ *)
(* Square root (bignum.c:457-553)                                       *)
(* ------------------------------------------------------------------ *)

\* the low digits of num dropped so that precision groups stay right of the
\* point
trim_fraction(num, precision) ==
    LET n == num.num_digits - num.point_offset + precision
    IN  [sign |-> num.sign, point_offset |-> precision, num_digits |-> n,
         digits |-> Array([i \in 1..n |-> num.digits[i + num.point_offset - precision]],
                          n)]

\* rad: the bignum of RADIX, digits 0 and 1
Rad == [bignum_alloc(2) EXCEPT !.digits = <<0, 1>>]

\* lines 510-515: (2 * ret * RADIX + mid) * mid
sqrt_candidate(ret, mid) ==
    long_mul(Digit(mid),
             add_unsigned(Digit(mid), long_mul(Rad, long_mul(Digit(2), ret))))

\* lines 518-529 for the candidate tmp of mid
sqrt_compare(rem, st, mid, tmp) ==
    IF mag_comp(tmp, rem) <= 0
    THEN [st EXCEPT !.el = mid,
                    !.tmpel = [bignum_alloc(tmp.num_digits)
                                   EXCEPT !.digits = tmp.digits],
                    !.set = TRUE,
                    !.lo = (mid + 1) % UINT_MOD]
    ELSE [st EXCEPT !.hi = (mid - 1) % UINT_MOD]

\* lines 509-515
sqrt_probe(ret, rem, st, mid) ==
    sqrt_compare(rem, st, mid, sqrt_candidate(ret, mid))

\* sqrt_pass trying the candidates one after the other from lo up
sqrt_pass_linear(ret, rem, st) ==
    sqrt_probe(ret, rem, [st EXCEPT !.iters = st.iters + 1], st.lo)

\* lines 509-534: one pass of the body of the search
sqrt_pass(ret, rem, st) ==
    sqrt_probe(ret, rem, [st EXCEPT !.iters = st.iters + 1],
               ((st.lo + st.hi) % UINT_MOD) \div 2)

\* the binary search of lines 505-535 for the next digit; st = [lo, hi, el,
\* tmpel, set, iters]: set tells whether el and tmpel have been assigned
RECURSIVE sqrt_search(_, _, _)
sqrt_search(ret, rem, st) ==
    IF ~(st.hi >= st.lo) THEN st
    ELSE sqrt_search(ret, rem, sqrt_pass(ret, rem, st))

\* sqrt_bounds with hi one short of the largest digit
sqrt_bounds_short ==
    [lo |-> 0, hi |-> RADIX - 2, el |-> 0,
     tmpel |-> NoNum, set |-> FALSE, iters |-> 0]

\* lines 505-507: the state a search starts in
sqrt_bounds ==
    [lo |-> 0, hi |-> RADIX - 1, el |-> 0,
     tmpel |-> NoNum, set |-> FALSE, iters |-> 0]

\* lines 537-546 with the search's final state: el stored in ret and rem
\* overwritten with rem - tmpel
sqrt_store(st, search) ==
    LET off == st.off - 2
        n   == st.n + 2
        sub == sub_unsigned(Window(st.buf, off, n), search.tmpel)
    IN  [i |-> st.i + 1,
         rbuf |-> [st.rbuf EXCEPT ![st.roff] = search.el],
         roff |-> st.roff - 1,
         buf |-> Array([j \in 1..Len(st.buf) |->
                            IF j > off /\ j <= off + n
                            THEN sub.digits[j - off] ELSE st.buf[j]],
                       Len(st.buf)),
         off |-> off,
         n |-> n,
         unset |-> st.unset \/ ~search.set,
         iters |-> Max(st.iters, search.iters)]

\* lines 501-546: one pass of the body of the loop
sqrt_iteration(st) ==
    sqrt_store(st,
               sqrt_search(Window(st.rbuf, st.roff, st.i),
                           Window(st.buf, st.off - 2, st.n + 2),
                           sqrt_bounds))

\* the loop of lines 500-547 from the state st on; st = [i, rbuf, roff, buf,
\* off, n, unset, iters]: rbuf the digits of ret as allocated and roff the
\* place ret->digits points to, buf, off and n the same of rem with its
\* num_digits; unset tells whether an el never assigned was stored
RECURSIVE sqrt_loop(_, _)
sqrt_loop(half, st) ==
    IF ~(st.i < half) THEN st
    ELSE sqrt_loop(half, sqrt_iteration(st))

\* lines 482-499 for sizes that calloc grants: the state the loop starts in
sqrt_enter(x) ==
    LET wnd == x.num_digits - x.point_offset
        sz  == wnd + (wnd % 2) + PRECISION * 2
        naz == PRECISION * 2 - x.point_offset
        ret == bignum_alloc(sz \div 2)
        rem == bignum_alloc(sz + 1)
        \* lines 491-493; the writes before the start of the buffer are
        \* StrayStores
        buf == Array([j \in 1..rem.num_digits |->
                          IF j - 1 - naz >= 0 /\ j - 1 - naz < x.num_digits
                          THEN x.digits[j - naz] ELSE 0], rem.num_digits)
    IN  [i |-> 0, rbuf |-> ret.digits, roff |-> sz \div 2,
         buf |-> buf, off |-> sz, n |-> 1,
         unset |-> FALSE, iters |-> 0]

\* sz / 2 of lines 482-484: the number of passes of the loop
sqrt_half(x) ==
    LET wnd == x.num_digits - x.point_offset
    IN  (wnd + (wnd % 2) + PRECISION * 2) \div 2

\* lines 482-547
sqrt_run(x) == sqrt_loop(sqrt_half(x), sqrt_enter(x))

\* sqrt_result without line 539: num_digits stays the 0 of line 487
sqrt_result_uncounted(x, run) ==
    LET naz == PRECISION * 2 - x.point_offset
        ret == [sign |-> 0, point_offset |-> PRECISION,
                num_digits |-> 0,
                digits |-> SubSeq(run.rbuf, run.roff + 1, Len(run.rbuf))]
    IN  IF naz < 0 \/ run.unset THEN UndefinedWith(ret) ELSE Val(ret)

\* lines 548 and 552 with the final state of the loop: num_digits was 0
\* (line 487) and has grown by one in each pass (line 539); digits are those
\* from the place ret->digits points to up to the end of the buffer
sqrt_result(x, run) ==
    LET naz == PRECISION * 2 - x.point_offset
        ret == [sign |-> 0, point_offset |-> PRECISION,
                num_digits |-> run.i,
                digits |-> SubSeq(run.rbuf, run.roff + 1, Len(run.rbuf))]
    IN  \* line 492 writes rem->digits[i + naz] for i >= 0: before the buffer
        \* when naz < 0
        IF naz < 0 \/ run.unset THEN UndefinedWith(ret) ELSE Val(ret)

sqrt_unsigned(x) ==
    \* lines 476-478: the trimmed copy is allocated and dropped, x is used as
    \* it came
    IF x.point_offset > PRECISION * 2
       /\ trim_fraction(x, PRECISION * 2).num_digits < 0
    THEN Exit
    ELSE sqrt_result(x, sqrt_run(x))

\* sqrt_signed is called by bsqrt and defined nowhere in the sources; by the
\* specification the square root of a negative value is the error outcome
\* (NULL to bsqrt) and any other value goes to sqrt_unsigned.  The sign of a
\* zero is "any" (bignum.c:44), so a zero is not negative whatever its sign.
sqrt_signed(x) ==
    IF x.sign # 0 /\ ~IsZero(x) THEN Null ELSE sqrt_unsigned(x)

SQRT_NEGATIVE_MESSAGE == <<"Sqrt of negative number not supported!">>

\* bsqrt without the test of r against NULL: the result is printed whatever
\* it is
bsqrt_unchecked(r, rnum) ==
    PrintedLines(r.val, rnum)

\* bsqrt from the outcome r of sqrt_signed on (bignum.h:84-89): the lines it
\* may print; nothing is printed by a process that has ended
bsqrt(r, rnum) ==
    IF r.kind = "null" THEN {Line(SQRT_NEGATIVE_MESSAGE)}
    ELSE IF r.kind = "val" THEN PrintedLines(r.val, rnum)
    ELSE IF r.kind = "crash" THEN {CrashLine}
    ELSE {NoLine}

(* ------------------------------------------------------------------ *)
(* Square root of one operand                                           *)
(* ------------------------------------------------------------------ *)

\* the operands of the square root: whole and fractional parts one group
\* longer than those of the other operations, and d * RADIX^(-k) for k up to
\* and past the 2 * PRECISION fractional groups the algorithm pairs up
SqrtOperands ==
    Operands(MaxWhole + 1, MaxFrac + 1)
    \cup {Tiny(sg, d, k) : sg \in {0, 1}, d \in DigitVals \ {0},
                           k \in 1..(2 * PRECISION + MaxShift)}

InitSqrt ==
    /\ pc = "start"
    /\ NoAux
    /\ rn = RNUM
    /\ sa = << >>
    /\ sb = << >>
    /\ a \in SqrtOperands
    /\ b = NoNum
    /\ res = NoRes
    /\ out = NoLine

\* a call of the library function
Sqrt ==
    /\ pc = "start"
    /\ pc' = "SQRT"
    /\ res' \in Outcomes(sqrt_unsigned(a))
    /\ a' \in AfterCall(a, res', sqrt_stray(a))
    /\ UNCHANGED <<aux, rn, sa, sb, b, out>>

\* the command SQRT of the command line
BSqrt ==
    /\ pc = "start"
    /\ pc' = "bsqrt"
    /\ res' \in Outcomes(sqrt_signed(a))
    /\ out' \in bsqrt(res', rn)
    /\ UNCHANGED <<aux, rn, sa, sb, a, b>>

NextSqrt == Sqrt \/ BSqrt

SpecSqrt == InitSqrt /\ [][NextSqrt]_vars

(* ------------------------------------------------------------------ *)
(* C6                                                                   *)
(* ------------------------------------------------------------------ *)

\* r * r <= x < (r + RADIX^(-PRECISION))^2, the three terms brought to the
\* scale RADIX^k with k = max(2 * r.point_offset, x.point_offset)
TruncatedRoot(x, r) ==
    LET k  == Max(2 * r.point_offset, x.point_offset)
        up == Pow(RADIX, k - 2 * r.point_offset)
        xs == IntOf(x) * Pow(RADIX, k - x.point_offset)
    IN  /\ IntOf(r) * IntOf(r) * up <= xs
        /\ xs < (IntOf(r) + 1) * (IntOf(r) + 1) * up

\* C6: for every non-negative a, r = sqrt_unsigned(a) is a value with
\* r.point_offset = PRECISION and r*r <= a < (r + RADIX^(-PRECISION))^2; the
\* square root of the square n*n of an integer n is n exactly.
C6_SqrtTruncated ==
    (pc = "SQRT" /\ (a.sign = 0 \/ IsZero(a))) =>
        /\ res.kind = "val"
        /\ res.val.point_offset = PRECISION
        /\ TruncatedRoot(a, res.val)
        /\ a.point_offset = 0 =>
               \A n \in 0..IntOf(a) :
                   n * n = IntOf(a) => IntOf(res.val) = n * Pow(RADIX, PRECISION)

\* what sqrt_unsigned does keep of C6: whenever it fills the remainder within
\* its ends, the value it returns is the truncated root of |a|
C6_ValuesAreTruncated ==
    (pc = "SQRT" /\ res.kind = "val" /\ sqrt_unsigned(a).kind = "val") =>
        /\ res.val.point_offset = PRECISION
        /\ res.val.sign = 0
        /\ TruncatedRoot(a, res.val)

(* ------------------------------------------------------------------ *)
(* C7                                                                   *)
(* ------------------------------------------------------------------ *)

UndefinedExit == [kind |-> "undefined_exit", val |-> NoNum]

UndefinedNull == [kind |-> "undefined_null", val |-> NoNum]

IsTainted(o) == o.kind \in {"undefined", "undefined_exit", "undefined_null"}

\* the process has ended
Failed(o) == o.kind \in {"exit", "crash", "undefined_exit"}

IsNull(o) == o.kind \in {"null", "undefined_null"}

\* the outcome o of a call made after undefined behaviour happened (t)
Taint(t, o) ==
    IF ~t THEN o
    ELSE IF o.kind = "val" THEN UndefinedWith(o.val)
    ELSE IF o.kind = "exit" THEN UndefinedExit
    ELSE IF o.kind = "null" THEN UndefinedNull
    ELSE o

\* what the caller of a sequence of calls may see
OutcomesOf(o) ==
    IF o.kind = "undefined_exit" THEN {Crash, Exit}
    ELSE IF o.kind = "undefined_null" THEN {Crash, Null}
    ELSE Outcomes(o)

(* ------------------------------------------------------------------ *)
(* Powers (bignum.c:555-695)                                            *)
(* ------------------------------------------------------------------ *)

\* lines 564-574 of pow_small from the state st on; st = [ret, tmp, e], e
\* what is left of the int b of the code
RECURSIVE pow_small_loop(_)
pow_small_loop(st) ==
    IF st.e = 0 THEN st.ret
    ELSE pow_small_loop([ret |-> IF st.e % 2 = 1 THEN long_mul(st.ret, st.tmp)
                                 ELSE st.ret,
                         tmp |-> long_mul(st.tmp, st.tmp),
                         e |-> st.e \div 2])

\* x ^ e for the int e (b in the code)
pow_small(x, e) == pow_small_loop([ret |-> Digit(1), tmp |-> clone(x), e |-> e])

\* lines 588-599 of pow_uint from the state st on; st = [i, ret, acc]
RECURSIVE pow_uint_loop(_, _)
pow_uint_loop(y, st) ==
    IF ~(st.i < y.num_digits) THEN st
    ELSE pow_uint_loop(y,
                       [i |-> st.i + 1,
                        ret |-> long_mul(st.ret, pow_small(st.acc, y.digits[st.i + 1])),
                        acc |-> IF st.i # y.num_digits - 1
                                THEN pow_small(st.acc, RADIX)
                                ELSE st.acc])

\* line 596 frees the accumulator just computed, not the old one (acccpy):
\* with more than one group in y the next pow_small reads freed memory and
\* line 600 frees it a second time; the value is the one returned if the
\* freed memory is still as it was
pow_uint(x, y) ==
    Taint(y.num_digits > 1,
          Val(pow_uint_loop(y, [i |-> 0, ret |-> Digit(1), acc |-> clone(x)]).ret))

\* lines 638-645 and 656-663: 1 / ret for a negative exponent
reciprocal(neg, ret) ==
    IF Failed(ret) THEN ret
    ELSE IF neg THEN Taint(IsTainted(ret), long_div(Digit(1), ret.val))
    ELSE ret

\* pow_sint without the reciprocal of lines 638-645
pow_sint_noreciprocal(x, y) == pow_uint(x, y)

\* lines 636-647
pow_sint(x, y) == reciprocal(y.sign # 0, pow_uint(x, y))

\* the bits of the mantissa of a double
DBL_MANT_DIG == 53

\* the binary expansion of num / RADIX, a bit at a time, up to DBL_MANT_DIG
\* bits from the first 1 on; sig counts those
RECURSIVE Expand(_, _, _)
Expand(num, bits, sig) ==
    IF num = 0 \/ sig = DBL_MANT_DIG THEN [bits |-> bits, num |-> num]
    ELSE LET bit == IF 2 * num >= RADIX THEN 1 ELSE 0
         IN  Expand(2 * num - bit * RADIX, Append(bits, bit),
                    IF sig > 0 \/ bit = 1 THEN sig + 1 ELSE 0)

\* one unit added in the last place i
RECURSIVE Increment(_, _)
Increment(bits, i) ==
    IF i = 0 THEN bits
    ELSE IF bits[i] = 0 THEN [bits EXCEPT ![i] = 1]
    ELSE Increment([bits EXCEPT ![i] = 0], i - 1)

RECURSIVE StripZeroBits(_)
StripZeroBits(bits) ==
    IF bits # << >> /\ bits[Len(bits)] = 0
    THEN StripZeroBits(SubSeq(bits, 1, Len(bits) - 1))
    ELSE bits

\* (double)digit / RADIX: the bits right of the binary point of the double
\* nearest to digit / RADIX (ties to even), down to its last 1
DoubleBits(digit) ==
    LET e    == Expand(digit, << >>, 0)
        last == e.bits[Len(e.bits)]
        up   == 2 * e.num > RADIX \/ (2 * e.num = RADIX /\ last = 1)
    IN  StripZeroBits(IF e.num # 0 /\ up THEN Increment(e.bits, Len(e.bits))
                      ELSE e.bits)

\* a double d with |d| < 1: neg tells d < 0, bits are those of |d|
Double(neg, bits) == [neg |-> neg, bits |-> bits]

\* lines 617-625 with the outcome root of sqrt_unsigned(tmp)
pow_ufrac_step(bits, st, root) ==
    IF root.kind = "exit"
    THEN [st EXCEPT !.kind = IF st.kind = "val" THEN "exit" ELSE "undefined_exit"]
    ELSE [i |-> st.i + 1,
          ret |-> IF bits[st.i] = 1 THEN long_mul(st.ret, root.val) ELSE st.ret,
          tmp |-> root.val,
          kind |-> IF root.kind = "undefined" THEN "undefined" ELSE st.kind]

\* lines 614-626 of pow_ufrac from the state st on; st = [i, ret, tmp, kind]:
\* i the bit d is at, kind "val" until a sqrt_unsigned exits or runs into
\* undefined behaviour
RECURSIVE pow_ufrac_loop(_, _)
pow_ufrac_loop(bits, st) ==
    IF st.i > Len(bits) \/ st.kind \in {"exit", "undefined_exit"} THEN st
    ELSE pow_ufrac_loop(bits, pow_ufrac_step(bits, st, sqrt_unsigned(st.tmp)))

\* line 628 with the final state of the loop
pow_ufrac_result(run) ==
    [kind |-> run.kind,
     val |-> IF run.kind \in {"val", "undefined"} THEN run.ret ELSE NoNum]

\* x ^ d for the bits d of a double in [0, 1)
pow_ufrac(x, bits) ==
    pow_ufrac_result(pow_ufrac_loop(bits, [i |-> 1, ret |-> Digit(1),
                                           tmp |-> clone(x), kind |-> "val"]))

\* lines 654-665
pow_sfrac(x, d) == reciprocal(d.neg, pow_ufrac(x, d.bits))

\* lines 689-694 with the outcomes of pow_sint and pow_sfrac; long_mul with a
\* NULL operand reads a field of the null pointer
long_pow_product(tmp1, tmp2) ==
    IF Failed(tmp1) THEN tmp1
    ELSE IF Failed(tmp2) THEN Taint(IsTainted(tmp1), tmp2)
    ELSE IF IsNull(tmp1) \/ IsNull(tmp2) THEN Crash
    ELSE Taint(IsTainted(tmp1) \/ IsTainted(tmp2),
               Val(long_mul(tmp1.val, tmp2.val)))

\* long_pow taking the group at digits[0], the last one right of the point,
\* for the fraction
long_pow_lastgroup(x, y) ==
    LET digit == IF y.point_offset = 0 THEN 0 ELSE y.digits[1]
    IN  IF y.point_offset # 0 /\ y.num_digits - y.point_offset < 0 THEN Exit
        ELSE long_pow_product(
                 pow_sint(x, IF y.point_offset = 0 THEN y ELSE trim_fraction(y, 0)),
                 pow_sfrac(x, Double(y.sign # 0 /\ digit # 0, DoubleBits(digit))))

long_pow(x, y) ==
    LET digit == IF y.point_offset = 0 THEN 0 ELSE y.digits[y.point_offset]
    IN  \* line 685: trim_fraction allocates num_digits - point_offset digits
        IF y.point_offset # 0 /\ y.num_digits - y.point_offset < 0 THEN Exit
        ELSE long_pow_product(
                 pow_sint(x, IF y.point_offset = 0 THEN y ELSE trim_fraction(y, 0)),
                 pow_sfrac(x, Double(y.sign # 0 /\ digit # 0, DoubleBits(digit))))

FRACTIONAL_POWER_MESSAGE == <<"Fractional power of negative base not supported!">>

\* bpow without the test of r against NULL
bpow_unchecked(r, rnum) ==
    PrintedLines(r.val, rnum)

\* bpow from the outcome r of long_pow on (bignum.h:109-114): the lines it
\* may print; nothing is printed by a process that has ended
bpow(r, rnum) ==
    IF r.kind = "null" THEN {Line(FRACTIONAL_POWER_MESSAGE)}
    ELSE IF r.kind = "val" THEN PrintedLines(r.val, rnum)
    ELSE IF r.kind = "crash" THEN {CrashLine}
    ELSE {NoLine}

(* ------------------------------------------------------------------ *)
(* Power of two operands                                                *)
(* ------------------------------------------------------------------ *)

\* the digits of the whole group and of the first fractional group of an
\* exponent; (RADIX \div 2) / RADIX is the double 0.5, of one bit (the others
\* have a mantissa of DBL_MANT_DIG bits and take as many square roots)
ExpWholeDigits == {0, 1, 2}

ExpFracDigits == {0, RADIX \div 2}

\* w, w.f, .f and the two groups of RADIX + w, of either sign
PowExponents ==
    {[sign |-> sg, point_offset |-> 0, num_digits |-> 1, digits |-> <<w>>] :
        sg \in {0, 1}, w \in ExpWholeDigits}
    \cup {[sign |-> sg, point_offset |-> 1, num_digits |-> 2, digits |-> <<f, w>>] :
        sg \in {0, 1}, w \in ExpWholeDigits, f \in ExpFracDigits}
    \cup {[sign |-> sg, point_offset |-> 1, num_digits |-> 1, digits |-> <<f>>] :
        sg \in {0, 1}, f \in ExpFracDigits}
    \cup {[sign |-> sg, point_offset |-> 0, num_digits |-> 2, digits |-> <<w, 1>>] :
        sg \in {0, 1}, w \in ExpWholeDigits}

\* the bases: the operands of the other operations, and values with enough
\* groups left or right of the point to reach the ends of the buffers of
\* long_div and sqrt_unsigned
PowBases ==
    Operands(MaxWhole, MaxFrac)
    \cup {Huge(sg, d, PRECISION + MaxShift + 1) : sg \in {0, 1}, d \in DigitVals \ {0}}
    \cup {Tiny(sg, d, 2 * PRECISION + MaxShift) : sg \in {0, 1}, d \in DigitVals \ {0}}

\* an exponent of two groups raises the accumulator to the power RADIX, and
\* with it the length of every product: it goes with the bases of one group
ShortBases == {x \in PowBases : x.num_digits = 1}

InitPow ==
    /\ pc = "start"
    /\ NoAux
    /\ rn = RNUM
    /\ sa = << >>
    /\ sb = << >>
    /\ b \in PowExponents
    /\ a \in IF b.num_digits - b.point_offset > 1 THEN ShortBases ELSE PowBases
    /\ res = NoRes
    /\ out = NoLine

\* a call of the library function
LongPow ==
    /\ pc = "start"
    /\ pc' = "POW"
    /\ res' \in OutcomesOf(long_pow(a, b))
    /\ a' \in AfterCall(a, res', pow_stray(a, b))
    /\ b' \in AfterCall(b, res', pow_stray(a, b))
    /\ UNCHANGED <<aux, rn, sa, sb, out>>

\* the command POW of the command line
BPow ==
    /\ pc = "start"
    /\ pc' = "bpow"
    /\ res' \in OutcomesOf(long_pow(a, b))
    /\ out' \in bpow(res', rn)
    /\ UNCHANGED <<aux, rn, sa, sb, a, b>>

NextPow == LongPow \/ BPow

SpecPow == InitPow /\ [][NextPow]_vars

(* ------------------------------------------------------------------ *)
(* C8                                                                   *)
(* ------------------------------------------------------------------ *)

\* the base is negative: its sign is set and it is not zero
NegativeBase == a.sign # 0 /\ ~IsZero(a)

\* the first digit-group right of the point of the exponent is not zero
FractionalExponent == b.point_offset > 0 /\ b.digits[b.point_offset] # 0

\* C8: long_pow of a negative base and an exponent whose first fractional
\* digit-group is non-zero returns NULL and computes no value, and the
\* command POW then prints "Fractional power of negative base not supported!"
C8_NegativeFractionalPowerError ==
    (pc \in {"POW", "bpow"} /\ NegativeBase /\ FractionalExponent)
        => /\ res.kind = "null"
           /\ pc = "bpow" => out = Line(FRACTIONAL_POWER_MESSAGE)

(* ------------------------------------------------------------------ *)
(* C9                                                                   *)
(* ------------------------------------------------------------------ *)

\* x and y are the same number: the same digit at every position either has
\* (leading and trailing zero groups do not count), and the same sign unless
\* both are zero
NumericallyEqual(x, y) ==
    /\ \A i \in (0 - Max(x.point_offset, y.point_offset))
                ..(Max(x.num_digits - x.point_offset,
                       y.num_digits - y.point_offset) - 1) :
           get_digit(x, i) = get_digit(y, i)
    /\ (IsZero(x) /\ IsZero(y)) \/ (x.sign # 0) = (y.sign # 0)

\* the exponent is w or -w as string_to_bignum gives it for a w below RADIX:
\* one group left of the point, zero groups right of it if any
WholeExponent(w) ==
    /\ b.num_digits - b.point_offset = 1
    /\ b.digits[b.point_offset + 1] = w
    /\ \A i \in 1..b.point_offset : b.digits[i] = 0

MaxMalformedChars == 3

\* a digit, a character that is none, the point and the minus sign
MalformedChars == {"1", "x", DOT_CHAR, MINUS_CHAR}

\* the empty string, a string with a character that is no digit other than
\* one leading '-' and one '.', a string with more than one '.'
IsMalformed(str) ==
    \/ str = << >>
    \/ \E i \in 1..Len(str) : str[i] \notin {"0", "1", "9", DOT_CHAR, MINUS_CHAR}
    \/ \E i \in 2..Len(str) : str[i] = MINUS_CHAR
    \/ Cardinality({i \in 1..Len(str) : str[i] = DOT_CHAR}) > 1

MalformedStrings ==
    {str \in UNION {[1..k -> MalformedChars] : k \in 0..MaxMalformedChars} :
        IsMalformed(str)}

\* a malformed string is read; the empty string asks calloc for 0 digits,
\* which glibc grants
InitMalformed ==
    /\ pc = "start"
    /\ NoAux
    /\ rn \in 1..MaxRnum
    /\ sa \in MalformedStrings
    /\ sb = << >>
    /\ a = NoNum
    /\ b = NoNum
    /\ res = NoRes
    /\ out = NoLine

\* string_to_bignum is called on the string
NextMalformed == Parse

SpecMalformed == InitMalformed /\ [][NextMalformed]_vars

(* ------------------------------------------------------------------ *)
(* C10                                                                  *)
(* ------------------------------------------------------------------ *)

\* C10: string_to_bignum reports a ParseError (returns NULL, its one way to
\* report an error) for every malformed string: one with a non-digit
\* character other than one leading '-' and one '.', one with more than one
\* '.', and the empty string.
C10_MalformedIsParseError ==
    (pc = "parsed" /\ IsMalformed(sa)) => res.kind = "null"

\* string_to_bignum returns a bignum for every string it is given
C10_AlwaysABignum ==
    pc = "parsed" => res.kind = "val" /\ res.val = a

(* ------------------------------------------------------------------ *)
(* Formatting of values and of differences                              *)
(* ------------------------------------------------------------------ *)

\* the most digit-groups of a zero drawn for formatting; its point_offset
\* goes one beyond
MaxZeroGroups == 2

\* zero in every layout: either sign flag, 0..MaxZeroGroups groups, the point
\* anywhere up to one group beyond them (long_div returns such layouts)
ZeroLayouts ==
    {[sign |-> sg, point_offset |-> po, num_digits |-> nd,
      digits |-> [i \in 1..nd |-> 0]] :
         sg \in {0, 1}, nd \in 0..MaxZeroGroups, po \in 0..(MaxZeroGroups + 1)}

FormatOperands == ZeroLayouts \cup Operands(MaxWhole, MaxFrac)

InitFormat ==
    /\ pc = "start"
    /\ NoAux
    /\ rn \in 1..MaxRnum
    /\ sa = << >>
    /\ sb = << >>
    /\ a \in FormatOperands
    /\ b \in FormatOperands
    /\ res = NoRes
    /\ out = NoLine

\* bignum_to_string of a
FormatValue ==
    /\ pc = "start"
    /\ pc' = "formatted"
    /\ res' = Val(a)
    /\ out' \in PrintedLines(a, rn)
    /\ UNCHANGED <<aux, rn, sa, sb, a, b>>

\* the command SUB from the operands on (bignum.h:44-45): the difference
\* and its string
BSub ==
    /\ pc = "start"
    /\ pc' = "bsub"
    /\ res' = Val(addsub_signed(a, b, 1))
    /\ out' \in PrintedLines(res'.val, rn)
    /\ UNCHANGED <<aux, rn, sa, sb, a, b>>

NextFormat == FormatValue \/ BSub

SpecFormat == InitFormat /\ [][NextFormat]_vars

(* ------------------------------------------------------------------ *)
(* C11                                                                  *)
(* ------------------------------------------------------------------ *)

\* C11: bignum_to_string returns exactly "0" for every value whose
\* digit-groups are all zero, whatever its sign flag, point_offset and
\* num_digits: a zero operand and a zero difference both print as 0.
C11_ZeroFormatsAsZero ==
    (pc \in {"formatted", "bsub"} /\ IsZero(res.val)) => out = Line(ZERO_STRING)

\* the difference of -0.0 and a zero of one group, computed with the sign
\* flag set and a group right of the point, has been printed as 0
C11_Witness ==
    /\ pc = "bsub"
    /\ a = [sign |-> 1, point_offset |-> 1, num_digits |-> 2, digits |-> <<0, 0>>]
    /\ b = [sign |-> 0, point_offset |-> 0, num_digits |-> 1, digits |-> <<0>>]
    /\ res.val.sign # 0
    /\ res.val.point_offset = 1
    /\ out = Line(ZERO_STRING)

(* ------------------------------------------------------------------ *)
(* Relations between the results of add, subtract, multiply, compare    *)
(* C12, C13, C15, C16                                                   *)
(* ------------------------------------------------------------------ *)

\* line 339: the number with the sign flag flipped, as addsub_signed takes
\* its second operand when it subtracts
Negated(num) == [num EXCEPT !.sign = Xor(num.sign, 1)]

\* |num| times RADIX^k, for k >= num.point_offset
ScaledMagnitude(num, k) == IntOf(num) * Pow(RADIX, k - num.point_offset)

InitAlgebra ==
    /\ pc = "start"
    /\ NoAux
    /\ rn = RNUM
    /\ sa = << >>
    /\ sb = << >>
    /\ a \in Operands(MaxWhole, MaxFrac)
    /\ b \in Operands(MaxWhole, MaxFrac)
    /\ res = NoRes
    /\ out = NoLine

\* the second operand is taken from the sum again
SubBack ==
    /\ pc = "ADD"
    /\ pc' = "ADD-SUB"
    /\ res' = Val(addsub_signed(res.val, b, 1))
    /\ UNCHANGED <<aux, rn, sa, sb, a, b, out>>

\* the sum of the two operands negated
AddNegated ==
    /\ pc = "start"
    /\ pc' = "NEG-ADD"
    /\ res' = Val(addsub_signed(Negated(a), Negated(b), 0))
    /\ UNCHANGED <<aux, rn, sa, sb, a, b, out>>

MagComp ==
    /\ pc = "start"
    /\ pc' = "COMP"
    /\ res' = Val(mag_comp(a, b))
    /\ UNCHANGED <<aux, rn, sa, sb, a, b, out>>

NextAlgebra == Add \/ Sub \/ Mul \/ SubBack \/ AddNegated \/ MagComp

SpecAlgebra == InitAlgebra /\ [][NextAlgebra]_vars

\* C12: for all a and b, addsub_signed(addsub_signed(a, b, 0), b, 1) is
\* numerically equal to a, with no loss of precision.
C12_AdditiveInverse ==
    pc = "ADD-SUB" => /\ res.kind = "val"
                      /\ NumericallyEqual(res.val, a)

\* 0.1 + 9.9 is 10.0, and taking 9.9 from it borrows through a zero group
C12_Witness ==
    /\ pc = "ADD-SUB"
    /\ a = [sign |-> 0, point_offset |-> 1, num_digits |-> 2, digits |-> <<1, 0>>]
    /\ b = [sign |-> 0, point_offset |-> 1, num_digits |-> 2,
            digits |-> <<RADIX - 1, RADIX - 1>>]
    /\ get_digit(res.val, 0 - 1) = 1
    /\ get_digit(res.val, 0) = 0
    /\ get_digit(res.val, 1) = 0

\* C13: for all a and b, a + b is numerically equal to b + a and a * b is
\* numerically equal to b * a, also when the operands have different point
\* offsets and digit counts.
C13_Commutativity ==
    /\ pc = "ADD" => NumericallyEqual(res.val, addsub_signed(b, a, 0))
    /\ pc = "MUL" => NumericallyEqual(res.val, long_mul(b, a))

\* 9 + (-9.9) is -0.9: one group against two, no group right of the point
\* against one
C13_Witness ==
    /\ pc = "ADD"
    /\ a = [sign |-> 0, point_offset |-> 0, num_digits |-> 1, digits |-> <<RADIX - 1>>]
    /\ b = [sign |-> 1, point_offset |-> 1, num_digits |-> 2,
            digits |-> <<RADIX - 1, RADIX - 1>>]
    /\ res.val.sign # 0
    /\ get_digit(res.val, 0 - 1) = RADIX - 1
    /\ get_digit(res.val, 0) = 0

\* C15: for all a and b, (-a) + (-b) is numerically equal to -(a + b), and
\* a - b is numerically equal to -(b - a), where negation flips the sign flag.
C15_SignRules ==
    /\ pc = "NEG-ADD" => NumericallyEqual(res.val, Negated(addsub_signed(a, b, 0)))
    /\ pc = "SUB" => NumericallyEqual(res.val, Negated(addsub_signed(b, a, 1)))

\* 1 - 9.9 is -8.9, the smaller magnitude being the first operand
C15_Witness ==
    /\ pc = "SUB"
    /\ a = [sign |-> 0, point_offset |-> 0, num_digits |-> 1, digits |-> <<1>>]
    /\ b = [sign |-> 0, point_offset |-> 1, num_digits |-> 2,
            digits |-> <<RADIX - 1, RADIX - 1>>]
    /\ res.val.sign # 0
    /\ get_digit(res.val, 0 - 1) = RADIX - 1
    /\ get_digit(res.val, 0) = RADIX - 2

\* C16: mag_comp(a, b) is negative, zero or positive exactly as |a| is below,
\* equal to or above |b|, whatever the layouts: equal magnitudes compare equal
\* also when num_digits, point_offset, leading or trailing zero groups differ;
\* and mag_comp(a, b) = -mag_comp(b, a).
C16_MagCompOrder ==
    pc = "COMP" =>
        LET k == Max(a.point_offset, b.point_offset)
        IN  /\ res.val < 0 <=> ScaledMagnitude(a, k) < ScaledMagnitude(b, k)
            /\ res.val = 0 <=> ScaledMagnitude(a, k) = ScaledMagnitude(b, k)
            /\ res.val > 0 <=> ScaledMagnitude(a, k) > ScaledMagnitude(b, k)
            /\ res.val = 0 - mag_comp(b, a)

\* 1 and 1.0, the second with a zero group right of the point, compare equal
C16_Witness ==
    /\ pc = "COMP"
    /\ a = [sign |-> 0, point_offset |-> 0, num_digits |-> 1, digits |-> <<1>>]
    /\ b = [sign |-> 0, point_offset |-> 1, num_digits |-> 2, digits |-> <<0, 1>>]
    /\ res.val = 0

(* ------------------------------------------------------------------ *)
(* Sums of three operands                                               *)
(* C14                                                                  *)
(* ------------------------------------------------------------------ *)

\* the second and the third operand: at most one group on either side of
\* the point
AddendOperands == OperandsOfShape(1, 0) \cup OperandsOfShape(0, 1) \cup OperandsOfShape(1, 1)

InitAssoc ==
    /\ pc = "start"
    /\ rn = RNUM
    /\ sa = << >>
    /\ sb = << >>
    /\ a \in Operands(MaxWhole, MaxFrac)
    /\ b \in AddendOperands
    /\ c \in AddendOperands
    /\ res = NoRes
    /\ out = NoLine
    /\ todo = << >>
    /\ lines = << >>
    /\ frame = NoFrame

\* the third operand is added to the sum of the first two
AddThird ==
    /\ pc = "ADD"
    /\ pc' = "ADD-ADD"
    /\ res' = Val(addsub_signed(res.val, c, 0))
    /\ UNCHANGED <<aux, rn, sa, sb, a, b, out>>

NextAssoc == Add \/ AddThird

SpecAssoc == InitAssoc /\ [][NextAssoc]_vars

\* C14: for all a, b and c of any signs and layouts, (a + b) + c is
\* numerically equal to a + (b + c).
C14_AddAssociativity ==
    pc = "ADD-ADD" =>
        NumericallyEqual(res.val, addsub_signed(a, addsub_signed(b, c, 0), 0))

\* (9.9 + 0.1) + (-9) is 1.0: a carry into a new group, then a difference
\* with a leading zero group
C14_Witness ==
    /\ pc = "ADD-ADD"
    /\ a = [sign |-> 0, point_offset |-> 1, num_digits |-> 2,
            digits |-> <<RADIX - 1, RADIX - 1>>]
    /\ b = [sign |-> 0, point_offset |-> 1, num_digits |-> 1, digits |-> <<1>>]
    /\ c = [sign |-> 1, point_offset |-> 0, num_digits |-> 1, digits |-> <<RADIX - 1>>]
    /\ res.val.sign = 0
    /\ res.val.num_digits > a.num_digits
    /\ get_digit(res.val, 0 - 1) = 0
    /\ get_digit(res.val, 0) = 1
    /\ get_digit(res.val, 1) = 0

(* ------------------------------------------------------------------ *)
(* Every operation of the library on the same operands                  *)
(* C17, C18                                                             *)
(* ------------------------------------------------------------------ *)

\* the operands of long_pow, and the decimal text of the first as the
\* string to convert
InitLibrary ==
    /\ pc = "start"
    /\ NoAux
    /\ rn = RNUM
    /\ b \in PowExponents
    /\ a \in IF b.num_digits - b.point_offset > 1 THEN ShortBases ELSE PowBases
    /\ sa = bignum_to_string_rnum(a, rn)
    /\ sb = << >>
    /\ res = NoRes
    /\ out = NoLine

Clone ==
    /\ pc = "start"
    /\ pc' = "CLONE"
    /\ res' = Val(clone(a))
    /\ UNCHANGED <<aux, rn, sa, sb, a, b, out>>

Abs ==
    /\ pc = "start"
    /\ pc' = "ABS"
    /\ res' = Val(bignum_abs(a))
    /\ UNCHANGED <<aux, rn, sa, sb, a, b, out>>

NextLibrary ==
    \/ Parse
    \/ Clone
    \/ Abs
    \/ FormatValue
    \/ MagComp
    \/ Add
    \/ Sub
    \/ Mul
    \/ Div
    \/ Sqrt
    \/ LongPow

SpecLibrary == InitLibrary /\ [][NextLibrary]_vars

\* the operations that take bignums, by the value of pc they leave
TakesBignums == {"CLONE", "ABS", "formatted", "COMP", "ADD", "SUB", "MUL", "DIV", "SQRT", "POW"}

\* C17: no operation mutates an input: after clone, bignum_abs,
\* bignum_to_string, mag_comp, addsub_signed, long_mul, long_div,
\* sqrt_unsigned or long_pow returns, the sign, point_offset, num_digits and
\* every digit-group of each operand are what they were before the call.
C17_OperandsUnchanged ==
    [][(pc' \in TakesBignums /\ res'.kind = "val") => (a' = a /\ b' = b)]_vars

\* the operations that return a bignum, by the value of pc they leave
ReturnsBignum == {"parsed", "CLONE", "ABS", "ADD", "SUB", "MUL", "DIV", "SQRT", "POW"}

\* num_digits is the number of digits stored, and each is a digit
WellFormed(num) ==
    /\ num.num_digits = Len(num.digits)
    /\ \A i \in 1..Len(num.digits) : num.digits[i] \in 0..(RADIX - 1)

\* C18: every value returned by string_to_bignum (on valid input), clone,
\* bignum_abs, addsub_signed, long_mul, long_div, sqrt_unsigned and long_pow
\* has num_digits equal to the length of its digit sequence and every
\* digit-group in [0, RADIX).
C18_ResultsWellFormed ==
    (pc \in ReturnsBignum /\ res.kind = "val") => WellFormed(res.val)

\* sqrt_unsigned(9) has returned 3.00: three groups, as many as the passes
\* that each exposed one
C18_Witness ==
    /\ pc = "SQRT"
    /\ a = [sign |-> 0, point_offset |-> 0, num_digits |-> 1, digits |-> <<RADIX - 1>>]
    /\ res.kind = "val"
    /\ res.val.num_digits = PRECISION + 1
    /\ res.val.digits[PRECISION + 1] = 3
    /\ \A i \in 1..PRECISION : res.val.digits[i] = 0

(* ------------------------------------------------------------------ *)
(* Exponents with two groups right of the point                         *)
(* C19                                                                  *)
(* ------------------------------------------------------------------ *)

\* .fg, w.fg and the two groups of RADIX + w with .fg, of either sign; g is
\* the group long_pow does not read
DeepExponents ==
    {[sign |-> sg, point_offset |-> 2, num_digits |-> 2, digits |-> <<g, f>>] :
        sg \in {0, 1}, f \in ExpFracDigits, g \in ExpFracDigits}
    \cup {[sign |-> sg, point_offset |-> 2, num_digits |-> 3, digits |-> <<g, f, w>>] :
        sg \in {0, 1}, w \in ExpWholeDigits, f \in ExpFracDigits, g \in ExpFracDigits}
    \cup {[sign |-> sg, point_offset |-> 2, num_digits |-> 4, digits |-> <<g, f, w, 1>>] :
        sg \in {0, 1}, w \in ExpWholeDigits, f \in ExpFracDigits, g \in ExpFracDigits}

InitDeepPow ==
    /\ pc = "start"
    /\ NoAux
    /\ rn = RNUM
    /\ sa = << >>
    /\ sb = << >>
    /\ b \in DeepExponents
    /\ a \in IF b.num_digits - b.point_offset > 1 THEN ShortBases ELSE PowBases
    /\ res = NoRes
    /\ out = NoLine

SpecDeepPow == InitDeepPow /\ [][NextPow]_vars

\* y with every group right of the first fractional group set to zero
FirstGroupOnly(y) ==
    [y EXCEPT !.digits = Array([i \in 1..y.num_digits |->
                                    IF i < y.point_offset THEN 0 ELSE y.digits[i]],
                               y.num_digits)]

\* the groups of y left of the point, with its sign
IntegerPart(y) ==
    [sign |-> y.sign, point_offset |-> 0,
     num_digits |-> y.num_digits - y.point_offset,
     digits |-> SubSeq(y.digits, y.point_offset + 1, y.num_digits)]

\* the first group of y right of the point over RADIX, with the sign of y
FirstFraction(y) ==
    IF y.point_offset = 0 THEN Double(FALSE, DoubleBits(0))
    ELSE Double(y.sign # 0 /\ y.digits[y.point_offset] # 0,
                DoubleBits(y.digits[y.point_offset]))

\* C19: long_pow(a, b) honours only the integer part of b and the first
\* fractional digit-group of b: its outcome is that of long_pow(a, b') for b'
\* the exponent b with all fractional groups beyond the first set to zero,
\* and it is pow_sint(a, c) * pow_sfrac(a, d) for c the integer part and d
\* the first fractional group of b.
C19_FirstFractionalGroupOnly ==
    [][pc' = "POW" =>
           /\ res' \in OutcomesOf(long_pow(a, FirstGroupOnly(b)))
           /\ res' \in OutcomesOf(long_pow_product(pow_sint(a, IntegerPart(b)),
                                                    pow_sfrac(a, FirstFraction(b))))]_vars

\* long_pow(9, 2.55) has returned 9^2 * 9^0.5 = 243, as for the exponent 2.5
C19_Witness ==
    /\ pc = "POW"
    /\ a = [sign |-> 0, point_offset |-> 0, num_digits |-> 1, digits |-> <<RADIX - 1>>]
    /\ b = [sign |-> 0, point_offset |-> 2, num_digits |-> 3,
            digits |-> <<RADIX \div 2, RADIX \div 2, 2>>]
    /\ res.kind = "val"
    /\ get_digit(res.val, 2) = 2
    /\ get_digit(res.val, 1) = 4
    /\ get_digit(res.val, 0) = 3
    /\ get_digit(res.val, 0 - 1) = 0

(* ------------------------------------------------------------------ *)
(* The command line: main and its handlers (bignum.h:27-130)            *)
(* C20                                                                  *)
(* ------------------------------------------------------------------ *)

DIVISION_BY_ZERO_MESSAGE == <<"Division by zero error!">>

\* bdiv from the outcome r of long_div on (bignum.h:69-74): the lines it may
\* print; nothing is printed by a process that has ended
bdiv(r, rnum) ==
    IF r.kind = "null" THEN {Line(DIVISION_BY_ZERO_MESSAGE)}
    ELSE IF r.kind = "val" THEN PrintedLines(r.val, rnum)
    ELSE IF r.kind = "crash" THEN {CrashLine}
    ELSE {NoLine}

\* the words main compares op with (bignum.h:122-128); a word read by
\* scanf("%s") is a sequence of characters, written here in one piece
CommandWords == {<<"ADD">>, <<"SUB">>, <<"MUL">>, <<"DIV">>, <<"SQRT">>, <<"ABS">>, <<"POW">>}

\* the number of words the handler of op reads
Arity(op) == IF op \in {<<"SQRT">>, <<"ABS">>} THEN 1 ELSE 2

\* the most commands of an input
MaxCommands == 2

\* commands with their operands: sums, differences and products, a division
\* by zero, one with a quotient and one whose divisor has more groups than
\* the quotient buffer holds, roots of a positive and of a negative number,
\* an absolute value, a power, the reciprocal of zero, and a word that is no
\* command
SomeCommands ==
    {<<<<"ADD">>, <<"1">>, <<"9">>>>,
     <<<<"SUB">>, <<"1">>, <<"9">>>>,
     <<<<"MUL">>, <<"9">>, <<"9">>>>,
     <<<<"DIV">>, <<"1">>, <<"0">>>>,
     <<<<"DIV">>, <<"9">>, <<"1">>>>,
     <<<<"DIV">>, <<"1">>, <<"1", "0", "0", "0", "0", "0">>>>,
     <<<<"SQRT">>, <<"9">>>>,
     <<<<"SQRT">>, <<MINUS_CHAR, "9">>>>,
     <<<<"ABS">>, <<MINUS_CHAR, "9">>>>,
     <<<<"POW">>, <<"9">>, <<"1">>>>,
     <<<<"POW">>, <<"0">>, <<MINUS_CHAR, "1">>>>,
     <<<<"MOD">>>>}

\* the inputs of up to n commands, as the words scanf reads one by one
RECURSIVE Inputs(_)
Inputs(n) ==
    IF n = 0 THEN {<< >>}
    ELSE Inputs(n - 1) \cup {cmd \o rest : cmd \in SomeCommands, rest \in Inputs(n - 1)}

InitMain ==
    /\ pc = "main"
    /\ rn = RNUM
    /\ sa = << >>
    /\ sb = << >>
    /\ a = NoNum
    /\ b = NoNum
    /\ c = NoNum
    /\ res = NoRes
    /\ out = NoLine
    /\ todo \in Inputs(MaxCommands)
    /\ lines = << >>
    /\ frame = NoFrame

\* main has read the word op and finds n more words for the handler
Reads(op, n) ==
    /\ pc = "main"
    /\ Len(todo) >= n + 1
    /\ Head(todo) = op

\* the handler has read n operands, its call had the outcome r and it
\* printed l: a line, or nothing because the process ended before printf
Handled(n, r, l) ==
    /\ todo' = SubSeq(todo, n + 2, Len(todo))
    /\ res' = r
    /\ out' = l
    /\ lines' = IF l.kind = "str" THEN Append(lines, l.str) ELSE lines
    /\ pc' = IF r.kind \in {"exit", "crash"} \/ l.kind = "crash" THEN "ended" ELSE "main"

\* bignum.h:27-37
MainAdd ==
    /\ Reads(<<"ADD">>, 2)
    /\ sa' = todo[2]
    /\ sb' = todo[3]
    /\ a' = string_to_bignum_rnum(sa', rn)
    /\ b' = string_to_bignum_rnum(sb', rn)
    /\ \E l \in PrintedLines(addsub_signed(a', b', 0), rn) :
           Handled(2, Val(addsub_signed(a', b', 0)), l)
    /\ UNCHANGED <<c, rn, frame>>

\* bignum.h:39-49
MainSub ==
    /\ Reads(<<"SUB">>, 2)
    /\ sa' = todo[2]
    /\ sb' = todo[3]
    /\ a' = string_to_bignum_rnum(sa', rn)
    /\ b' = string_to_bignum_rnum(sb', rn)
    /\ \E l \in PrintedLines(addsub_signed(a', b', 1), rn) :
           Handled(2, Val(addsub_signed(a', b', 1)), l)
    /\ UNCHANGED <<c, rn, frame>>

\* bignum.h:51-61
MainMul ==
    /\ Reads(<<"MUL">>, 2)
    /\ sa' = todo[2]
    /\ sb' = todo[3]
    /\ a' = string_to_bignum_rnum(sa', rn)
    /\ b' = string_to_bignum_rnum(sb', rn)
    /\ \E l \in PrintedLines(long_mul(a', b'), rn) :
           Handled(2, Val(long_mul(a', b')), l)
    /\ UNCHANGED <<c, rn, frame>>

\* bignum.h:63-77
MainDiv ==
    /\ Reads(<<"DIV">>, 2)
    /\ sa' = todo[2]
    /\ sb' = todo[3]
    /\ a' = string_to_bignum_rnum(sa', rn)
    /\ b' = string_to_bignum_rnum(sb', rn)
    /\ \E r \in Outcomes(long_div(a', b')) : \E l \in bdiv(r, rn) : Handled(2, r, l)
    /\ UNCHANGED <<c, rn, frame>>

\* bignum.h:79-91
MainSqrt ==
    /\ Reads(<<"SQRT">>, 1)
    /\ sa' = todo[2]
    /\ a' = string_to_bignum_rnum(sa', rn)
    /\ \E r \in Outcomes(sqrt_signed(a')) : \E l \in bsqrt(r, rn) : Handled(1, r, l)
    /\ UNCHANGED <<c, rn, sb, b, frame>>

\* bignum.h:93-101
MainAbs ==
    /\ Reads(<<"ABS">>, 1)
    /\ sa' = todo[2]
    /\ a' = string_to_bignum_rnum(sa', rn)
    /\ \E l \in PrintedLines(bignum_abs(a'), rn) : Handled(1, Val(bignum_abs(a')), l)
    /\ UNCHANGED <<c, rn, sb, b, frame>>

\* bignum.h:103-117
MainPow ==
    /\ Reads(<<"POW">>, 2)
    /\ sa' = todo[2]
    /\ sb' = todo[3]
    /\ a' = string_to_bignum_rnum(sa', rn)
    /\ b' = string_to_bignum_rnum(sb', rn)
    /\ \E r \in OutcomesOf(long_pow(a', b')) : \E l \in bpow(r, rn) : Handled(2, r, l)
    /\ UNCHANGED <<c, rn, frame>>

\* bignum.h:121-128: a word that is none of the seven is passed over
MainSkip ==
    /\ pc = "main"
    /\ todo # << >>
    /\ Head(todo) \notin CommandWords
    /\ todo' = Tail(todo)
    /\ UNCHANGED <<pc, rn, sa, sb, a, b, c, res, out, lines, frame>>

\* bignum.h:121: scanf returns EOF and main returns
MainEnd ==
    /\ pc = "main"
    /\ todo = << >>
    /\ pc' = "done"
    /\ UNCHANGED <<rn, sa, sb, a, b, c, res, out, todo, lines, frame>>

NextMain ==
    \/ MainAdd
    \/ MainSub
    \/ MainMul
    \/ MainDiv
    \/ MainSqrt
    \/ MainAbs
    \/ MainPow
    \/ MainSkip
    \/ MainEnd

SpecMain == InitMain /\ [][NextMain]_vars

\* main is about to read a command and its operands are there
AtCommand ==
    /\ pc = "main"
    /\ todo # << >>
    /\ Head(todo) \in CommandWords
    /\ Len(todo) >= Arity(Head(todo)) + 1

\* C20: the dispatcher processes commands in input order until end of
\* input: each recognised command (ADD, SUB, MUL, DIV, SQRT, ABS, POW)
\* consumes exactly its operands and prints exactly one output line, and
\* after a command that prints an error line the next command is still read
\* and processed.
C20_OneLinePerCommand ==
    [][AtCommand =>
           /\ todo' = SubSeq(todo, Arity(Head(todo)) + 2, Len(todo))
           /\ Len(lines') = Len(lines) + 1
           /\ pc' = "main"]_vars

\* C20 for the commands that do not end the process: the operands are
\* consumed, one line is printed and main reads on; a command that prints
\* one of the error lines never ends the process
C20_WhileTheProcessLives ==
    [][AtCommand =>
           /\ todo' = SubSeq(todo, Arity(Head(todo)) + 2, Len(todo))
           /\ pc' # "ended" => /\ Len(lines') = Len(lines) + 1
                               /\ lines'[Len(lines')] = out'.str
                               /\ pc' = "main"
           /\ out' \in {Line(DIVISION_BY_ZERO_MESSAGE), Line(SQRT_NEGATIVE_MESSAGE),
                        Line(FRACTIONAL_POWER_MESSAGE)} => pc' = "main"]_vars

(* ------------------------------------------------------------------ *)
(* The reciprocal of zero                                               *)
(* C21                                                                  *)
(* ------------------------------------------------------------------ *)

\* long_div(1, ret) of line 642 or of line 660 returned NULL for a ret that
\* is zero, and nothing before it ended the process
ReciprocalOfZero(x, y) ==
    LET tmp1 == pow_sint(x, IntegerPart(y))
        tmp2 == pow_sfrac(x, FirstFraction(y))
    IN  /\ y.num_digits - y.point_offset >= 0
        /\ ~Failed(tmp1)
        /\ ~Failed(tmp2)
        /\ tmp1.kind = "null" \/ tmp2.kind = "null"

\* C21: when the reciprocal taken for a negative exponent divides by zero
\* (long_pow with a zero base and a negative exponent), long_pow returns
\* NULL to its caller: it neither ends the process nor uses the missing
\* reciprocal as an operand.
C21_ReciprocalOfZeroIsAnError ==
    [][(pc' \in {"POW", "bpow"} /\ ReciprocalOfZero(a, b))
           => res'.kind = "null"]_vars

(* ------------------------------------------------------------------ *)
(* long_div and sqrt_unsigned a step at a time                          *)
(* (bignum.c:385-451, 474-553)                                          *)
(* C22, C24, C25, C26, C27, C30                                         *)
(* ------------------------------------------------------------------ *)

\* frame = [live, stray, outer, inner]: live the number of blocks that
\* bignum_alloc or malloc have given the call and that it has not released;
\* stray the values line 404 or 492 stored before the start of the buffer of
\* rem; outer the state of the for loop as div_loop and sqrt_loop keep it,
\* inner that of the binary search as div_search and sqrt_search keep it

\* the divisor without its leading zeroes, and the zeroes added for precision
\* (lines 394, 396)
Bnd == b.num_digits - LeadingZeroes(b)

Naz == PRECISION + b.point_offset - a.point_offset

\* the operands: those of the specifications of the two operations, the sign
\* clear since neither loop reads it; the fractional groups of the divisor
\* only shift naz, which the dividends vary as well: none or one
LoopDividends == {x \in Dividends : x.sign = 0}

LoopDivisors == {y \in Divisors : y.sign = 0 /\ y.point_offset \in {0, 1}}

LoopRadicands == {x \in SqrtOperands : x.sign = 0}

\* a call of long_div(a, b) or one of sqrt_unsigned(a) is about to be made
InitLoops ==
    /\ rn = RNUM
    /\ sa = << >>
    /\ sb = << >>
    /\ res = NoRes
    /\ out = NoLine
    /\ NoAux
    /\ \/ /\ pc = "long_div"
          /\ a \in LoopDividends
          /\ b \in LoopDivisors
       \/ /\ pc = "sqrt_unsigned"
          /\ a \in LoopRadicands
          /\ b = NoNum

\* lines 386-416: NULL for a zero divisor, the end of the process for a size
\* calloc refuses, or ret, rem, dig and bcpy allocated and rem filled
DivEnter ==
    /\ pc = "long_div"
    /\ IF Failed(long_div(a, b)) \/ IsNull(long_div(a, b))
       THEN /\ pc' = "DIV"
            /\ res' = long_div(a, b)
            /\ frame' = frame
       ELSE /\ pc' = "div_for"
            /\ res' = res
            /\ frame' = [live |-> 4, stray |-> div_stray(a, b),
                         outer |-> div_enter(a, b), inner |-> div_bounds(div_enter(a, b))]
    /\ UNCHANGED <<rn, sa, sb, a, b, out, c, todo, lines>>

\* lines 417-424: the test of the for loop holds, a digit of rem is exposed
\* and a search starts
DivExpose ==
    /\ pc = "div_for"
    /\ frame.outer.ai >= 0 - Naz
    /\ pc' = "div_while"
    /\ frame' = [frame EXCEPT !.inner = div_bounds(frame.outer)]
    /\ UNCHANGED <<rn, sa, sb, a, b, res, out, c, todo, lines>>

\* the remainder under consideration in the search on its way
DivRem == Window(frame.outer.buf, frame.outer.off - 1, Bnd + 1)

\* lines 425-439: one pass of the search; tmp is allocated and, if it fits,
\* isub, and neither is released
DivProbe ==
    /\ pc = "div_while"
    /\ ~frame.inner.found
    /\ frame.inner.hi >= frame.inner.lo
    /\ LET pass == div_pass(DivRem, DivisorCopy(b, Bnd), frame.inner)
       IN  frame' = [frame EXCEPT
                         !.inner = pass,
                         !.live = @ + 1 + (IF pass.hi = frame.inner.hi THEN 1 ELSE 0)]
    /\ UNCHANGED <<pc, rn, sa, sb, a, b, res, out, c, todo, lines>>

\* lines 441-445: the search has ended; the digit is stored and rem
\* overwritten
DivStore ==
    /\ pc = "div_while"
    /\ frame.inner.found \/ ~(frame.inner.hi >= frame.inner.lo)
    /\ pc' = "div_for"
    /\ frame' = [frame EXCEPT !.outer = div_store(Bnd, Naz, frame.outer, frame.inner)]
    /\ UNCHANGED <<rn, sa, sb, a, b, res, out, c, todo, lines>>

\* lines 447-450: the test of the for loop fails; bcpy, dig and rem are
\* released and ret returned
DivReturn ==
    /\ pc = "div_for"
    /\ frame.outer.ai < 0 - Naz
    /\ pc' = "DIV"
    /\ res' \in Outcomes(div_result(a, b, frame.outer))
    /\ frame' = [frame EXCEPT !.live = @ - 3]
    /\ a' \in AfterCall(a, res', frame.stray)
    /\ b' \in AfterCall(b, res', frame.stray)
    /\ UNCHANGED <<rn, sa, sb, out, c, todo, lines>>

\* lines 476-499: the trimmed copy allocated and dropped, then ret, rem, dig
\* and rad allocated and rem filled
SqrtEnter ==
    /\ pc = "sqrt_unsigned"
    /\ IF Failed(sqrt_unsigned(a))
       THEN /\ pc' = "SQRT"
            /\ res' = sqrt_unsigned(a)
            /\ frame' = frame
       ELSE /\ pc' = "sqrt_for"
            /\ res' = res
            /\ frame' = [live |-> 4 + (IF a.point_offset > PRECISION * 2 THEN 1 ELSE 0),
                         stray |-> sqrt_stray(a),
                         outer |-> sqrt_enter(a), inner |-> sqrt_bounds]
    /\ UNCHANGED <<rn, sa, sb, a, b, out, c, todo, lines>>

\* lines 500-507: the test of the for loop holds, two digits of rem are
\* exposed and a search starts
SqrtExpose ==
    /\ pc = "sqrt_for"
    /\ frame.outer.i < sqrt_half(a)
    /\ pc' = "sqrt_while"
    /\ frame' = [frame EXCEPT !.inner = sqrt_bounds]
    /\ UNCHANGED <<rn, sa, sb, a, b, res, out, c, todo, lines>>

\* the result so far and the remainder under consideration in the search on
\* its way
SqrtRet == Window(frame.outer.rbuf, frame.outer.roff, frame.outer.i)

SqrtRem == Window(frame.outer.buf, frame.outer.off - 2, frame.outer.n + 2)

\* lines 508-535: one pass of the search; tmp1, tmp2, tmp3 and tmp are
\* allocated and released, and tmpel replaced by a copy of a tmp that fits
SqrtProbe ==
    /\ pc = "sqrt_while"
    /\ frame.inner.hi >= frame.inner.lo
    /\ LET pass == sqrt_pass(SqrtRet, SqrtRem, frame.inner)
       IN  frame' = [frame EXCEPT
                         !.inner = pass,
                         !.live = @ + (IF pass.set /\ ~frame.inner.set THEN 1 ELSE 0)]
    /\ UNCHANGED <<pc, rn, sa, sb, a, b, res, out, c, todo, lines>>

\* lines 537-546: the search has ended; el is added to ret, rem overwritten,
\* sub and tmpel released
SqrtStore ==
    /\ pc = "sqrt_while"
    /\ ~(frame.inner.hi >= frame.inner.lo)
    /\ pc' = "sqrt_for"
    /\ frame' = [frame EXCEPT !.outer = sqrt_store(frame.outer, frame.inner),
                              !.live = @ - (IF frame.inner.set THEN 1 ELSE 0)]
    /\ UNCHANGED <<rn, sa, sb, a, b, res, out, c, todo, lines>>

\* lines 548-552: the test of the for loop fails; rad, dig and rem are
\* released and ret returned
SqrtReturn ==
    /\ pc = "sqrt_for"
    /\ ~(frame.outer.i < sqrt_half(a))
    /\ pc' = "SQRT"
    /\ res' \in Outcomes(sqrt_result(a, frame.outer))
    /\ frame' = [frame EXCEPT !.live = @ - 3]
    /\ a' \in AfterCall(a, res', frame.stray)
    /\ UNCHANGED <<rn, sa, sb, b, out, c, todo, lines>>

NextLoops ==
    \/ DivEnter
    \/ DivExpose
    \/ DivProbe
    \/ DivStore
    \/ DivReturn
    \/ SqrtEnter
    \/ SqrtExpose
    \/ SqrtProbe
    \/ SqrtStore
    \/ SqrtReturn

SpecLoops == InitLoops /\ [][NextLoops]_vars

\* the steps return what the call made in one step returns
LoopsAgreeWithCalls ==
    [][/\ pc' = "DIV" => res' \in Outcomes(long_div(a, b))
       /\ pc' = "SQRT" => res' \in Outcomes(sqrt_unsigned(a))]_vars

(* ------------------------------------------------------------------ *)
(* C22                                                                  *)
(* ------------------------------------------------------------------ *)

\* C22: each operation releases every intermediate value it allocates before
\* it returns: after long_div or sqrt_unsigned returns a value, the only
\* block allocated during the call that is still live is the result.
C22_OnlyTheResultIsLive ==
    (pc \in {"DIV", "SQRT"} /\ res.kind = "val") => frame.live = 1

(* ------------------------------------------------------------------ *)
(* The groups next to the point                                         *)
(* C23                                                                  *)
(* ------------------------------------------------------------------ *)

\* the number the decimal characters chars write
RECURSIVE CharsValue(_)
CharsValue(chars) ==
    IF chars = << >> THEN 0
    ELSE CharsValue(SubSeq(chars, 1, Len(chars) - 1)) * TEN
         + CharMinusZero(chars[Len(chars)])

\* the characters of str left of the point and right of it, the sign aside
WholeChars(str) ==
    LET body == IF str[1] = MINUS_CHAR THEN Tail(str) ELSE str
    IN  IF DotIndex(body) >= 0 THEN SubSeq(body, 1, DotIndex(body)) ELSE body

FracChars(str) ==
    LET body == IF str[1] = MINUS_CHAR THEN Tail(str) ELSE str
    IN  IF DotIndex(body) >= 0 THEN SubSeq(body, DotIndex(body) + 2, Len(body)) ELSE << >>

\* the least-significant whole-number group of the number str writes: its
\* last rnum decimal digits left of the point
UnitsGroup(str, rnum) ==
    CharsValue(SubSeq(WholeChars(str), Max(1, Len(WholeChars(str)) - rnum + 1),
                      Len(WholeChars(str))))

\* the fractional group adjacent to the point: the first rnum decimal digits
\* right of it, zeroes where the string has ended
PointGroup(str, rnum) ==
    CharsValue(SubSeq(FracChars(str) \o Zeroes(rnum), 1, rnum))

\* C23 as the specification has it: in every value the digit-group at array
\* index point_offset - 1 is the least-significant whole-number group and
\* the group at array index point_offset is the fractional group adjacent to
\* the point.
C23_GroupsAsSpecified ==
    pc = "parsed" =>
        /\ a.point_offset >= 1 => a.digits[(a.point_offset - 1) + 1] = UnitsGroup(sa, rn)
        /\ a.point_offset < a.num_digits
               => a.digits[a.point_offset + 1] = PointGroup(sa, rn)

\* C23: in every value the digit-group at array index point_offset is the
\* least-significant whole-number group, which is position 0 of get_digit,
\* and the group at array index point_offset - 1 is the fractional group
\* adjacent to the point, which is position -1 of get_digit; a value without
\* fractional groups has point_offset 0.
C23_GroupsNextToThePoint ==
    pc = "parsed" =>
        /\ a.point_offset >= 0
        /\ a.point_offset < a.num_digits
        /\ a.digits[a.point_offset + 1] = UnitsGroup(sa, rn)
        /\ get_digit(a, 0) = UnitsGroup(sa, rn)
        /\ get_digit(a, 0 - 1) = PointGroup(sa, rn)
        /\ a.point_offset >= 1 => a.digits[(a.point_offset - 1) + 1] = PointGroup(sa, rn)
        /\ a.point_offset = 0 <=> FracChars(sa) = << >>

\* "19.01" has been parsed in groups of one decimal digit: the 9 is at index
\* point_offset = 2 and the 0 next to the point at index 1
C23_Witness ==
    /\ pc = "parsed"
    /\ rn = 1
    /\ sa = <<"1", "9", ".", "0", "1">>
    /\ a.point_offset = 2
    /\ a.digits = <<1, 0, 9, 1>>

(* ------------------------------------------------------------------ *)
(* C24                                                                  *)
(* ------------------------------------------------------------------ *)

\* the step stores a quotient digit (lines 441-445)
StoresQuotientDigit == pc = "div_while" /\ pc' = "div_for"

\* C24: in long_div, at every output position the search ends with the
\* recorded quotient digit equal to the largest d in [0, RADIX-1] such that
\* d * b <= the remainder window, the digit RADIX-1 included, and the
\* remainder written back is window - d * b, which is smaller than b; the
\* search ends in its break, with the digit and the difference of the same
\* candidate.
C24_QuotientDigitIsLargest ==
    [][StoresQuotientDigit =>
           LET window == IntOf(DivRem)
               bv     == IntOf(DivisorCopy(b, Bnd))
               d      == frame'.outer.digits[frame.outer.ai + Naz + 1]
               back   == IntOf(Window(frame'.outer.buf, frame'.outer.off, Bnd + 1))
           IN  /\ frame.outer.ai + Naz + 1 \in 1..Len(frame.outer.digits)
               /\ d \in 0..(RADIX - 1)
               /\ d * bv <= window
               /\ window < (d + 1) * bv
               /\ back = window - d * bv
               /\ back < bv
               /\ frame.inner.found
               /\ frame.inner.set
               /\ frame.inner.mid = d
               /\ IntOf(frame.inner.isub) = window - frame.inner.mid * bv]_vars

\* long_div(9, 1) has stored its first quotient digit, RADIX - 1, and written
\* back the remainder 0
C24_Witness ==
    /\ pc = "div_for"
    /\ a = [sign |-> 0, point_offset |-> 0, num_digits |-> 1, digits |-> <<RADIX - 1>>]
    /\ b = [sign |-> 0, point_offset |-> 0, num_digits |-> 1, digits |-> <<1>>]
    /\ frame.outer.ai = 0 - 1
    /\ frame.outer.digits[PRECISION + 1] = RADIX - 1
    /\ frame.inner.found
    /\ frame.inner.mid = RADIX - 1
    /\ IsZero(Window(frame.outer.buf, frame.outer.off, Bnd + 1))

(* ------------------------------------------------------------------ *)
(* C25                                                                  *)
(* ------------------------------------------------------------------ *)

\* the step adds a group to the result (lines 537-546)
StoresRootDigit == pc = "sqrt_while" /\ pc' = "sqrt_for"

\* (2 * r * RADIX + x) * x
RootCandidate(r, x) == (2 * r * RADIX + x) * x

\* C25: in sqrt_unsigned, at every step the search selects the largest x in
\* [0, RADIX-1] such that (2 * result * RADIX + x) * x <= the exposed
\* remainder (a digit is always chosen), appends x as the next lower group
\* of the result, and replaces the remainder by
\* remainder - (2 * result * RADIX + x) * x, which is not negative.
C25_RootDigitIsLargest ==
    [][StoresRootDigit =>
           LET r     == IntOf(SqrtRet)
               rem   == IntOf(SqrtRem)
               x     == frame.inner.el
               after == frame'.outer
           IN  /\ frame.inner.set
               /\ x \in 0..(RADIX - 1)
               /\ RootCandidate(r, x) <= rem
               /\ x < RADIX - 1 => RootCandidate(r, x + 1) > rem
               /\ IntOf(frame.inner.tmpel) = RootCandidate(r, x)
               /\ after.roff = frame.outer.roff - 1
               /\ after.i = frame.outer.i + 1
               /\ after.rbuf[after.roff + 1] = x
               /\ IntOf(Window(after.rbuf, after.roff, after.i)) = r * RADIX + x
               /\ rem - RootCandidate(r, x) >= 0
               /\ IntOf(Window(after.buf, after.off, after.n))
                      = rem - RootCandidate(r, x)]_vars

\* sqrt_unsigned(99) has added its first group, RADIX - 1, and left the
\* remainder 99 - 81
C25_Witness ==
    /\ pc = "sqrt_for"
    /\ a = [sign |-> 0, point_offset |-> 0, num_digits |-> 2,
            digits |-> <<RADIX - 1, RADIX - 1>>]
    /\ frame.outer.i = 1
    /\ frame.inner.el = RADIX - 1
    /\ IntOf(Window(frame.outer.rbuf, frame.outer.roff, 1)) = RADIX - 1
    /\ IntOf(Window(frame.outer.buf, frame.outer.off, frame.outer.n))
           = (RADIX * RADIX - 1) - (RADIX - 1) * (RADIX - 1)

(* ------------------------------------------------------------------ *)
(* C26                                                                  *)
(* ------------------------------------------------------------------ *)

\* naz of line 489: a is processed as it came, the trimmed copy of line 477
\* being dropped
SqrtNaz == PRECISION * 2 - a.point_offset

\* C26: in sqrt_unsigned the count naz of zero groups added for precision is
\* never negative, an input with more than 2 * PRECISION fractional groups
\* being trimmed before the remainder buffer is filled, so every remainder
\* index i + naz written is within the buffer.
C26_RootRemainderFilledInBounds ==
    pc \in {"sqrt_for", "sqrt_while"} =>
        /\ SqrtNaz >= 0
        /\ frame.stray = << >>
        /\ \A i \in 0..(a.num_digits - 1) :
               i + SqrtNaz \in 0..(Len(frame.outer.buf) - 1)

(* ------------------------------------------------------------------ *)
(* C27                                                                  *)
(* ------------------------------------------------------------------ *)

\* C27: for every a and every non-zero b, long_div allocates buffers of
\* non-negative size, and every index it reads or writes in the remainder
\* buffer and in the quotient buffer lies inside the allocation; this
\* includes operands where a has more than PRECISION + b.point_offset
\* fractional groups (naz < 0) and operands where b has more significant
\* groups than a.num_digits + naz.
C27_DivBuffersInBounds ==
    /\ pc = "DIV" => res.kind # "exit"
    /\ pc \in {"div_for", "div_while"} =>
           /\ a.num_digits + Naz - Bnd + 1 >= 0
           /\ a.num_digits + Naz + 1 >= 0
           /\ frame.stray = << >>
           /\ \A i \in 0..(a.num_digits - 1) :
                  Naz + i \in 0..(Len(frame.outer.buf) - 1)
    /\ pc = "div_while" =>
           /\ frame.outer.off - 1 >= 0
           /\ frame.outer.off - 1 + Bnd + 1 <= Len(frame.outer.buf)
           /\ frame.outer.ai + Naz \in 0..(Len(frame.outer.digits) - 1)

(* ------------------------------------------------------------------ *)
(* C28                                                                  *)
(* ------------------------------------------------------------------ *)

\* bignum_to_string reads digits[di] for di from the clamped lnzdi down to
\* the clamped fnzdi (lines 192-210): all of them are indexes of num
ReadsInsideDigits(num) ==
    \/ FirstNonZero(num) = num.num_digits
    \/ /\ ClampedLast(num) < num.num_digits
       /\ ClampedFirst(num) >= 0

\* C28: every value returned by an arithmetic operation satisfies
\* 0 <= point_offset <= num_digits, so that bignum_to_string never reads a
\* digit-group index outside [0, num_digits); this holds for the long_div
\* results whose divisor has more significant groups than the dividend.
C28_PointOffsetWithinDigits ==
    (pc \in ReturnsBignum /\ res.kind = "val") =>
        /\ 0 <= res.val.point_offset
        /\ res.val.point_offset <= res.val.num_digits
        /\ ReadsInsideDigits(res.val)


(* ------------------------------------------------------------------ *)
(* C29                                                                  *)
(* ------------------------------------------------------------------ *)

\* the block acc points to along pow_uint (bignum.c:587-600); st = [i, live,
\* stale, twice, kept]: live tells whether that block is allocated, stale
\* whether a freed block was passed to pow_small, twice whether bignum_free
\* was given a freed block, kept how many old accumulators were never freed
RECURSIVE pow_uint_acc(_, _)
pow_uint_acc(y, st) ==
    IF ~(st.i < y.num_digits)
    THEN \* line 600: bignum_free(acc)
         [st EXCEPT !.twice = ~st.live, !.live = FALSE]
    ELSE IF st.i # y.num_digits - 1
    THEN \* lines 589 and 595 read acc; 595 makes acc the new block, which
         \* 596 frees, and the old one (acccpy) is left allocated
         pow_uint_acc(y, [i |-> st.i + 1, live |-> FALSE,
                          stale |-> st.stale \/ ~st.live, twice |-> st.twice,
                          kept |-> st.kept + (IF st.live THEN 1 ELSE 0)])
    ELSE \* line 589 reads acc
         pow_uint_acc(y, [st EXCEPT !.i = st.i + 1,
                                    !.stale = st.stale \/ ~st.live])

\* line 587: acc = clone(a)
pow_uint_blocks(y) ==
    pow_uint_acc(y, [i |-> 0, live |-> TRUE, stale |-> FALSE, twice |-> FALSE,
                     kept |-> 0])

\* the exponent long_pow hands to pow_sint and so to pow_uint (lines 685, 689)
UintExponent(y) == IF y.point_offset = 0 THEN y ELSE trim_fraction(y, 0)

\* long_pow gets as far as pow_uint
ReachesPowUint(y) == ~(y.point_offset # 0 /\ y.num_digits - y.point_offset < 0)

\* C29: in pow_uint every value passed to pow_small, long_mul and bignum_free
\* is live: at each group of the exponent but the last the old accumulator
\* is released and the new one stays live for the next group, and nothing is
\* freed twice.
C29_AccumulatorStaysLive ==
    [][(pc' \in {"POW", "bpow"} /\ ReachesPowUint(b)) =>
          LET h == pow_uint_blocks(UintExponent(b))
          IN  ~h.stale /\ ~h.twice /\ h.kept = 0]_vars


(* ------------------------------------------------------------------ *)
(* C30                                                                  *)
(* ------------------------------------------------------------------ *)

\* the least k with 2^k >= n, from k on (p = 2^k)
RECURSIVE Log2From(_, _, _)
Log2From(n, k, p) == IF p >= n THEN k ELSE Log2From(n, k + 1, 2 * p)

\* ceil(log2(n))
Log2Ceil(n) == Log2From(n, 0, 1)

\* a step that runs the body of one of the two searches once (lines 426-439
\* of long_div, 509-534 of sqrt_unsigned)
SearchPass ==
    /\ pc \in {"div_while", "sqrt_while"}
    /\ pc' = pc
    /\ frame'.inner.iters = frame.inner.iters + 1

\* the pass ended the search of long_div in its break (line 433)
SearchBreaks == pc = "div_while" /\ frame'.inner.found

\* what holds of every pass whatever the range of lo: the count of passes,
\* hi within the digits, no wrap-around of mid - 1, no overflow of lo + hi,
\* and an interval that strictly shrinks unless the pass is the one that
\* ends the search of long_div in its break
SearchPassBounded ==
    /\ frame'.inner.iters <= Log2Ceil(RADIX) + 1
    /\ frame.inner.lo + frame.inner.hi < UINT_MOD
    /\ frame'.inner.hi \in 0..(RADIX - 1)
    /\ frame'.inner.hi <= frame.inner.hi
    /\ frame'.inner.lo >= frame.inner.lo
    /\ \/ SearchBreaks
       \/ frame'.inner.hi - frame'.inner.lo < frame.inner.hi - frame.inner.lo

\* C30 as stated: each search ends after at most ceil(log2(RADIX)) + 1
\* passes; lo and hi stay within [0, RADIX-1], hi = mid - 1 does not wrap
\* around and lo + hi does not overflow, and the interval strictly shrinks
\* on every pass that goes on searching.
C30_SearchAsStated ==
    [][SearchPass =>
          /\ SearchPassBounded
          /\ frame'.inner.lo \in 0..(RADIX - 1)]_vars

\* C30, amended: each search ends after at most ceil(log2(RADIX)) + 1
\* passes; hi stays within [0, RADIX-1] and lo within [0, RADIX] (lo is
\* RADIX when the search ends having taken the digit RADIX-1), hi = mid - 1
\* does not wrap around and lo + hi does not overflow, and every pass either
\* strictly shrinks the interval or ends the search of long_div in its break.
C30_SearchTerminates ==
    [][SearchPass =>
          /\ SearchPassBounded
          /\ frame'.inner.lo \in 0..RADIX]_vars

\* a search of sqrt_unsigned that took the digit RADIX-1 in as many passes
\* as a search of RADIX candidates takes
C30_Witness ==
    /\ pc = "sqrt_while"
    /\ frame.inner.iters = Log2Ceil(RADIX)
    /\ frame.inner.el = RADIX - 1
    /\ frame.inner.lo = RADIX
    /\ frame.inner.hi = RADIX - 1

=============================================================================
